---- MODULE Spec2Model ----
(***************************************************************************)
(* MCPClientManager (src/tools/mcp_managers/client_manager.py): a registry *)
(* of named fastmcp clients, driven by caller threads that hand every      *)
(* coroutine to one asyncio event loop running on a dedicated thread.      *)
(*                                                                         *)
(* Caller threads interleave between any two accesses of the shared        *)
(* dictionaries; coroutines on the loop interleave at their awaits only,   *)
(* and are started in the order in which they were submitted.              *)
(***************************************************************************)
EXTENDS Naturals, Sequences, FiniteSets, TLC

VARIABLES
    clients,                \* self.clients: client id -> entry, or NoEntry
    class_to_path_mapping,  \* self.class_to_path_mapping: group -> path
    log_info,               \* self.log_info: de-scoped id -> list of records
    tool_schemas,           \* self.tool_schemas: the schemas, as listed
    tools,                  \* self.tools: the names that have a schema
    handles,                \* every Client(...) constructed so far
    tasks,                  \* coroutines handed to self.loop, oldest first
    th,                     \* per caller thread: position and locals
    out,                    \* per caller thread: how its last call ended
    obs,                    \* per caller thread: what its current call did
    drivers,                \* which thread has driven which client operation
    ncalls,                 \* API calls made so far, by all threads
    log_file,               \* the records written to the file at log_dump_path
    cls_instance,           \* MCPClientManager._instance: 0 (None) or an object
    managers,               \* every object MCPClientManager.__new__ has made
    converter               \* per caller thread: its EnhancedMultiTurnConverter

vars == <<clients, class_to_path_mapping, log_info, tool_schemas, tools,
          handles, tasks, th, out, obs, drivers, ncalls, log_file,
          cls_instance, managers, converter>>

----------------------------------------------------------------------------
(* Bounds and inputs *)

Threads == {"t1", "t2"}
LoopThread == "loop"

\* API calls the caller threads make, all together
MaxCalls == 2

\* Every Python value of the model is a record with a tag t.
None == [t |-> "none"]
NoEntry == [t |-> "absent"]
Raw(v) == [t |-> "raw", v |-> v]
Garbage == Raw("garbage")

\* A client id is its '-'-separated segments: "fs-1" is <<"fs", "1">>.
ClientIds == {<<"fs", "1">>}
Groups == {"fs"}

\* A second session of the same group, and a session of a group that the
\* first initConfig did not name
SecondId == <<"fs", "2">>
UnknownId == <<"db", "1">>
\* "fs-a-1": an id whose part after the group has a '-' of its own
DashedId == <<"fs", "a", "1">>
SessionIds == ClientIds \cup {SecondId, UnknownId, DashedId}
Scenarios == {"S1", "S2"}

\* Python values
Dict(v) == [t |-> "dict", v |-> v]
Str(j) == [t |-> "str", j |-> j]
EmptyDict == Dict("empty")
PyValues == {None, EmptyDict} \cup {Dict(s) : s \in Scenarios}

\* bool(x) for the values a scenario argument takes
Truthy(x) == x # None /\ x # EmptyDict

\* json.dumps / json.loads; loads raises on None and on text that is no JSON
json_dumps(x) == Str(x)
json_loads_raises(s) == s.t # "str" \/ s.j \notin PyValues
json_loads(s) == s.j

\* Tool names are '-'-separated segments too: "fs-load_scenario".
LoadTool == <<"load_scenario">>
SaveTool == <<"save_scenario">>
PlainTool == <<"fs", "ls">>

\* the load tool by its catalog name, and arguments given as text: "{}", and
\* text that json.loads rejects
GroupLoadTool == <<"fs", "load_scenario">>
GroupSaveTool == <<"fs", "save_scenario">>
EmptyDictText == Str(EmptyDict)
MalformedText == Str(Garbage)

\* "load_scenario" in tool_name
IsLoadName(tool_name) == \E i \in 1..Len(tool_name) : tool_name[i] = "load_scenario"

\* tool_name.split("-", 1)[-1]
StripPrefix(tool_name) == IF Len(tool_name) > 1 THEN Tail(tool_name) ELSE tool_name

\* client_id.split("-")[0] and client_id.split("-")[-1]
ToolClass(client_id) == client_id[1]
NoClassClientId(client_id) == client_id[Len(client_id)]

LoadedText == Str(Raw("loaded"))
PlainText == Str(Raw("done"))

AlreadyText == Str(Raw("This client is already initialized. Skipping..."))

----------------------------------------------------------------------------
(* The calls a caller thread may make *)

NoOp ==
    [name |-> "none", cid |-> <<>>, tool |-> <<>>, args |-> None,
     scenario |-> None, check |-> FALSE, extra |-> None]
OpGetClient(cid) == [NoOp EXCEPT !.name = "get_client", !.cid = cid]
OpLoadScenario(cid, s, c) ==
    [NoOp EXCEPT !.name = "load_scenario", !.cid = cid, !.scenario = s, !.check = c]
OpCallTool(tool, args, cid) ==
    [NoOp EXCEPT !.name = "call_tool", !.cid = cid, !.tool = tool, !.args = args]
OpCloseAll == [NoOp EXCEPT !.name = "close_all_clients"]
OpShutdown == [NoOp EXCEPT !.name = "shutdown"]
OpDumpLog == [NoOp EXCEPT !.name = "dump_log"]
\* the converter's execute_tool(tool_name, args)
OpExecuteTool(tool, args) == [NoOp EXCEPT !.name = "execute_tool", !.tool = tool, !.args = args]
OpSetStatus(cid) == [NoOp EXCEPT !.name = "set_status", !.cid = cid]
\* initConfig(config_path), by the servers config['mcpServers'] names, in order
OpInitConfig(servers) == [NoOp EXCEPT !.name = "initConfig", !.args = servers]

\* MCPClientManager(), and the converter's create_client_manager()
OpConstruct == [NoOp EXCEPT !.name = "MCPClientManager"]
OpCreateClientManager == [NoOp EXCEPT !.name = "create_client_manager"]

Menu ==
    {OpGetClient(c) : c \in ClientIds}
    \cup {OpLoadScenario(c, Dict(s), k) : c \in ClientIds, s \in Scenarios, k \in BOOLEAN}
    \cup {OpCallTool(SaveTool, EmptyDict, c) : c \in ClientIds}
    \cup {OpCallTool(PlainTool, EmptyDict, c) : c \in ClientIds}
    \cup {OpCloseAll}

MenuBridge ==
    {OpInitConfig(<<g>>) : g \in Groups}
    \cup {OpCallTool(PlainTool, EmptyDict, c) : c \in ClientIds}
    \cup {OpCloseAll}

\* Calls on a session whose group is not configured, and the configuration
\* that adds the group
MenuCatalog ==
    {OpGetClient(c) : c \in ClientIds \cup {UnknownId}}
    \cup {OpLoadScenario(UnknownId, Dict("S1"), FALSE)}
    \cup {OpCallTool(PlainTool, EmptyDict, UnknownId)}
    \cup {OpInitConfig(<<ToolClass(UnknownId)>>)}

\* Teardown, and the calls that create sessions around it
MenuClose ==
    {OpCloseAll} \cup {OpGetClient(c) : c \in ClientIds \cup {SecondId}}

\* Tool calls on one session, with arguments as a mapping, as text and as
\* malformed text, and a load made through call_tool on another session
MenuCalls ==
    {OpCallTool(PlainTool, a, c) :
        a \in {EmptyDict, EmptyDictText, MalformedText}, c \in ClientIds}
    \cup {OpCallTool(GroupLoadTool, Dict("S1"), SecondId)}

\* A load without the read-back, and the save tool called through call_tool
MenuRound ==
    {OpLoadScenario(c, Dict(s), FALSE) : c \in ClientIds, s \in Scenarios}
    \cup {OpCallTool(SaveTool, EmptyDict, c) : c \in ClientIds}

\* Tool calls that are logged, the flush of the log and the teardown that
\* clears it
MenuLog ==
    {OpCallTool(PlainTool, EmptyDict, c) : c \in ClientIds}
    \cup {OpDumpLog, OpCloseAll}

\* Every operation of the manager, on one session, and a configuration
MenuEvery ==
    {OpGetClient(c) : c \in ClientIds}
    \cup {OpLoadScenario(c, Dict("S1"), k) : c \in ClientIds, k \in BOOLEAN}
    \cup {OpCallTool(PlainTool, EmptyDict, c) : c \in ClientIds}
    \cup {OpCloseAll, OpDumpLog, OpShutdown}
    \cup {OpInitConfig(<<ToolClass(UnknownId)>>)}

\* Tools called through the converter: one that answers plain text, the save
\* that answers JSON, a load, and a tool of a group that has no session
MenuExecute ==
    {OpExecuteTool(tool, EmptyDict) :
        tool \in {PlainTool, GroupSaveTool, <<ToolClass(UnknownId), "ls">>}}
    \cup {OpExecuteTool(GroupLoadTool, Dict(s)) : s \in Scenarios}

\* Tool calls on a plain and on a dashed id
MenuDashed ==
    {OpCallTool(PlainTool, EmptyDict, c) : c \in ClientIds \cup {DashedId}}

\* set_status on a registered and on an unregistered session, next to teardown
MenuStatus ==
    {OpSetStatus(c) : c \in ClientIds \cup {SecondId}} \cup {OpCloseAll}

\* Shutdown next to tool calls
MenuShutdown ==
    {OpShutdown} \cup {OpCallTool(PlainTool, EmptyDict, c) : c \in ClientIds}

\* The calls that submit a coroutine (or, for a load without a scenario, do
\* not), around a shutdown
MenuStopped ==
    {OpShutdown, OpInitConfig(<<"fs">>)}
    \cup {OpCallTool(PlainTool, EmptyDict, c) : c \in ClientIds \cup {UnknownId}}
    \cup {OpLoadScenario(c, s, FALSE) : c \in ClientIds, s \in {Dict("S1"), EmptyDict}}

\* Loads without a scenario (None, {}), next to a load with one
MenuSkip ==
    {OpLoadScenario(c, s, k) : c \in ClientIds, s \in {None, EmptyDict}, k \in BOOLEAN}
    \cup {OpLoadScenario(c, Dict("S1"), FALSE) : c \in ClientIds}
    \cup {OpGetClient(c) : c \in ClientIds}

\* simulate_multi_turn_execution(scenario_data, golden_answers)
OpSimulate(scenario_data, golden_answers) ==
    [NoOp EXCEPT !.name = "simulate_multi_turn_execution",
                 !.scenario = scenario_data, !.args = golden_answers]

\* scenario_data: a mapping from class names to scenarios, here for the file
\* system class (with a scenario, or an empty one) and the math class
ScenarioData(items) == [t |-> "dict", v |-> "scenario_data", items |-> items]
ScenarioDatas ==
    {ScenarioData(<<>>), ScenarioData([math |-> EmptyDict])}
    \cup {ScenarioData([fs |-> s]) : s \in {Dict("S1"), EmptyDict}}
    \cup {ScenarioData([fs |-> Dict("S1"), math |-> EmptyDict])}

\* golden_answers: the turns, each a list of calls (given as convert_function_call
\* returns them): no turn, or one turn with one call of a file system tool
GoldenAnswers(turns) == [t |-> "list", turns |-> turns]
PlainAction == [tool |-> PlainTool, args |-> EmptyDict]
MenuSimulate ==
    {OpSimulate(d, GoldenAnswers(g)) :
        d \in ScenarioDatas, g \in {<<>>, <<<<PlainAction>>>>}}

\* Texts and values of the reward score (bfcl.py)

\* a float, by its tenths: 0.0, 0.5 and 1.0
Float(n) == [t |-> "float", tenths |-> n]
Zero == Float(0)
One == Float(10)

\* argument values: an int, and a str by its characters
PyInt(n) == [t |-> "int", v |-> n]
PyStr(c) == [t |-> "pystr", c |-> c]

\* f"{value}": the characters of the value
Format(value) == IF value.t = "int" THEN (IF value.v = 1 THEN "1" ELSE "2") ELSE value.c

\* a JSON object or a Python dict of arguments, by its items in written order
Mapping(items) == [t |-> "dict", items |-> items]

\* the text name(k1='v1', k2='v2') with its arguments in this order
CallStr(name, items) == [t |-> "str", name |-> name, items |-> items]

\* what stands between <tool_call> and </tool_call>: {"name": name,
\* "arguments": arguments} (arguments is NoEntry when the key is absent),
\* {"arguments": {}} without a name, and text in braces that is no JSON
CallJson(name, arguments) == [kind |-> "call", name |-> name, arguments |-> arguments]
NoNameJson == [kind |-> "noname"]
BrokenJson == [kind |-> "broken"]

\* a solution text, by its <tool_call> blocks in order
Solution(blocks) == [t |-> "str", blocks |-> blocks]

\* a ground truth text: a JSON list or one call on each line
GroundTruth(form, calls) == [t |-> "str", form |-> form, calls |-> calls]

Blocks ==
    {CallJson("f", Mapping(<<<<"a", PyStr("1")>>>>)),
     CallJson("g", Mapping(<<<<"b", PyStr("2")>>, <<"a", PyInt(1)>>>>)),
     CallJson("f", PyStr("x")),
     CallJson("h", NoEntry),
     NoNameJson, BrokenJson}

GtCalls ==
    {CallStr("f", <<<<"a", "1">>>>),
     CallStr("g", <<<<"b", "2">>, <<"a", "1">>>>),
     CallStr("h", <<>>),
     Str(Raw("h"))}

\* the sequences over S of length at most 2
UpTo2(S) == {<<>>} \cup {<<x>> : x \in S} \cup {<<x, y>> : x \in S, y \in S}

Solutions == {Solution(b) : b \in UpTo2(Blocks)}
GroundTruths ==
    {GroundTruth(f, c) : f \in {"lines", "json"}, c \in UpTo2(GtCalls)}
    \cup {GroundTruth("json", <<PyInt(1)>>)}

\* _compute_trace_score(solution, ground_truth)
OpTraceScore(solution, ground_truth) ==
    [NoOp EXCEPT !.name = "_compute_trace_score",
                 !.args = solution, !.scenario = ground_truth]

\* compute_score(solution_str, ground_truth, extra_info)
OpComputeScore(solution_str, ground_truth, extra_info) ==
    [NoOp EXCEPT !.name = "compute_score", !.args = solution_str,
                 !.scenario = ground_truth, !.extra = extra_info]

\* extra_info with the two final configurations
Info(sol, gts) ==
    [t |-> "dict", sol_final_config |-> sol, gts_final_config |-> gts]

\* a final configuration as a str that is no JSON
AnswerText == Str(Raw("done"))

ExtraInfos ==
    {None, EmptyDict}
    \cup {Info(x, y) : x \in {Dict("S1"), Dict("S2"), Str(Dict("S1")), AnswerText},
                       y \in {Dict("S1"), AnswerText}}

MenuScore ==
    {OpTraceScore(x, y) : x \in Solutions, y \in GroundTruths}
    \cup {OpComputeScore(Solution(b), GroundTruth("lines", c), e) :
             b \in {<<>>, <<CallJson("f", Mapping(<<<<"a", PyStr("1")>>>>))>>,
                     <<CallJson("f", PyStr("x"))>>},
             c \in {<<>>, <<CallStr("f", <<<<"a", "1">>>>)>>, <<CallStr("h", <<>>)>>},
             e \in ExtraInfos}

\* Construction of the manager, directly and through a converter
MenuConstruct == {OpConstruct, OpCreateClientManager}

MenuLoad ==
    {OpLoadScenario(c, Dict("S1"), TRUE) : c \in ClientIds}
    \cup {OpLoadScenario(c, Dict("S2"), FALSE) : c \in ClientIds}
    \cup {OpCloseAll}

----------------------------------------------------------------------------
(* Outcomes, locals, and the objects of the model *)

Ret(v) == [kind |-> "ret", val |-> v]
Raise(e) == [kind |-> "raise", exc |-> e]
NoOutcome == [kind |-> "none"]

Ok(v) == [kind |-> "ok", val |-> v]
Exc(e) == [kind |-> "exc", exc |-> e]
Pending == [kind |-> "pending"]

\* the thread is not inside simulate_multi_turn_execution
NoRun == [pc |-> "none"]

IdleLocals ==
    [pc |-> "idle", cont |-> "none", op |-> NoOp, client |-> 0,
     status |-> FALSE, result |-> None, todo |-> {}, iter |-> None,
     converter |-> FALSE, self |-> 0, run |-> NoRun]

\* What the current (or last) call of a thread has done so far: the call, the
\* status load_scenario got from get_client, the coroutines it submitted, what
\* call_tool returned for the save, what set_status did, the exception that
\* call_tool caught and printed, the thread's previous call if that failed,
\* the records dump_log has written, and whether the call began after the event
\* loop had stopped.
NoObs ==
    [op |-> NoOp, seen |-> "unset", issued |-> 0, echo |-> Pending,
     mark |-> "unset", caught |-> "none", prev |-> NoOp, wrote |-> 0,
     late |-> FALSE]

\* Client(path): a handle, with what the server behind it holds
NewClient(cid) == [cid |-> cid, rel |-> "live", state |-> EmptyDict, loads |-> 0]

\* {"scenario": scenario}
LoadArgs(scenario) == [t |-> "dict", v |-> "load", scenario |-> scenario]

\* self._call_tool_async(tool_name, tool_args, client, client_id), not yet started
call_tool_coro(tool_name, tool_args, client, client_id) ==
    [kind |-> "call", cid |-> client_id, h |-> client, tool |-> tool_name,
     args |-> tool_args, k |-> 0, pc |-> "queued", res |-> Pending]

\* self.close_client(client_id), not yet started
close_client_coro(client_id) ==
    [kind |-> "close", cid |-> client_id, h |-> 0, tool |-> <<>>,
     args |-> None, k |-> 0, pc |-> "queued", res |-> Pending]

\* self.init_config_async(config), not yet started; k counts the servers done
init_config_coro(servers) ==
    [kind |-> "init", cid |-> <<>>, h |-> 0, tool |-> <<>>,
     args |-> servers, k |-> 0, pc |-> "queued", res |-> Pending]

\* A bridge that runs the coroutine on the calling thread (as asyncio.run would)
run_coroutine_in_caller(coro, t) ==
    [owner |-> t, runner |-> t, kind |-> coro.kind, cid |-> coro.cid,
     h |-> coro.h, tool |-> coro.tool, args |-> coro.args, k |-> coro.k,
     pc |-> coro.pc, res |-> coro.res]

\* asyncio.run_coroutine_threadsafe(coro, self.loop), called by thread t: the
\* coroutine becomes a task of the loop thread, and t holds its future
run_coroutine_threadsafe(coro, t) ==
    [owner |-> t, runner |-> LoopThread, kind |-> coro.kind, cid |-> coro.cid,
     h |-> coro.h, tool |-> coro.tool, args |-> coro.args, k |-> coro.k,
     pc |-> coro.pc, res |-> coro.res]

\* add_log: if no_class_client_id not in self.log_info: self.log_info[...] = []
add_log_key(log, client_id) ==
    LET no_class_client_id == NoClassClientId(client_id)
        keys == DOMAIN log \cup {no_class_client_id}
    IN [k \in keys |-> IF k \in DOMAIN log THEN log[k] ELSE <<>>]

\* add_log that assigns the list instead of appending to it
add_log_assign(log, client_id, tool_name, tool_args, tool_result) ==
    [log EXCEPT ![NoClassClientId(client_id)] =
        <<[tool_name |-> tool_name, tool_args |-> tool_args,
           tool_result |-> tool_result]>>]

\* add_log: log["tool"] = {...}; self.log_info[no_class_client_id].append(log),
\* for a log that has the key
add_log_append(log, client_id, tool_name, tool_args, tool_result) ==
    [log EXCEPT ![NoClassClientId(client_id)] =
        Append(@, [tool_name |-> tool_name, tool_args |-> tool_args,
                   tool_result |-> tool_result])]

\* add_log(client_id, {"tool": {...}}), with no other thread in between
add_log(log, client_id, tool_name, tool_args, tool_result) ==
    add_log_append(add_log_key(log, client_id), client_id, tool_name, tool_args,
                   tool_result)

\* The tools a server lists, in its order
ServerTools == <<"ls", "load_scenario", "save_scenario">>
PathOf(server_name) == <<"servers", server_name>>

\* tool_name = f"{server_name}-{tool.name}", for each tool listed
ToolNames(server_name) == [n \in 1..Len(ServerTools) |-> <<server_name, ServerTools[n]>>]
Range(f) == {f[x] : x \in DOMAIN f}

\* the converter's self.client_ids once _load_initial_scenarios has made a
\* session id for each group of the scenario
client_ids == [g \in Groups |-> CHOOSE c \in ClientIds : ToolClass(c) = g]

\* The object super().__new__(cls) returns: it has no attribute yet. attrs are
\* the attributes that __init__ has set, loop and loop_thread the objects that
\* self.loop and self.loop_thread refer to (numbered as they are created),
\* started the Thread objects that were started, running the event loops
\* inside run_forever().
NewManager ==
    [attrs |-> {}, loop |-> 0, loops |-> 0, loop_thread |-> 0, threads |-> 0,
     started |-> {}, running |-> {}]

ManagerAttrs == {"clients", "class_to_path_mapping", "log_info", "loop", "loop_thread"}

\* the object after one __init__
NewManagerInited ==
    [attrs |-> ManagerAttrs, loop |-> 1, loops |-> 1, loop_thread |-> 1,
     threads |-> 1, started |-> {1}, running |-> {1}]

\* a reference to the manager object m, as a Python value
Obj(m) == [t |-> "manager", id |-> m]

\* A converter before create_client_manager, and after it and
\* _load_initial_scenarios
\* (runs counts its calls of _load_initial_scenarios)
NewConverter == [manager |-> 0, client_ids |-> <<>>, runs |-> 0]
LoadedConverter == [manager |-> 1, client_ids |-> client_ids, runs |-> 1]

\* A converter after create_client_manager
ReadyConverter == [manager |-> 1, client_ids |-> <<>>, runs |-> 0]

\* One manager object has been constructed, once, and every thread's
\* converter holds it. The variables clients, class_to_path_mapping, log_info,
\* tool_schemas, tools and tasks are the attributes (and the loop) of this
\* first object.
Constructed ==
    /\ cls_instance = 1
    /\ managers = <<NewManagerInited>>
    /\ converter = [t \in Threads |-> LoadedConverter]

\* The manager as constructed, and configured by a first initConfig that names
\* the one server of Groups
Init ==
    /\ clients = [c \in SessionIds |-> NoEntry]
    /\ class_to_path_mapping = [g \in Groups |-> PathOf(g)]
    /\ log_info = <<>>
    /\ tool_schemas = ToolNames("fs")
    /\ tools = Range(ToolNames("fs"))
    /\ handles = <<>>
    /\ tasks = <<>>
    /\ th = [t \in Threads |-> IdleLocals]
    /\ out = [t \in Threads |-> NoOutcome]
    /\ obs = [t \in Threads |-> NoObs]
    /\ drivers = {}
    /\ ncalls = 0
    /\ log_file = <<>>
    /\ Constructed

\* The configured manager after get_client has been called, one call after
\* the other, for the session ids of the sequence ids: each has a client of
\* its own and is not initialized
AfterGetClient(ids) ==
    /\ clients = [c \in SessionIds |->
                    IF \E n \in 1..Len(ids) : ids[n] = c
                    THEN [client |-> CHOOSE n \in 1..Len(ids) : ids[n] = c,
                          status |-> FALSE]
                    ELSE NoEntry]
    /\ handles = [n \in 1..Len(ids) |-> NewClient(ids[n])]

\* the log after one tool call has succeeded on each session of ids, in order
RECURSIVE LogAfter(_)
LogAfter(ids) ==
    IF ids = <<>> THEN <<>>
    ELSE add_log(LogAfter(SubSeq(ids, 1, Len(ids) - 1)), ids[Len(ids)],
                 StripPrefix(PlainTool), EmptyDict, PlainText)

\* The configured manager after call_tool has succeeded, one call after the
\* other, on the session ids of the sequence ids
InitLog ==
    /\ \E ids \in {<<>>} \cup
                  {<<c>> : c \in ClientIds} \cup
                  {<<c, SecondId>> : c \in ClientIds} :
         /\ AfterGetClient(ids)
         /\ log_info = LogAfter(ids)
         /\ drivers = IF ids = <<>> THEN {}
                      ELSE {[by |-> LoopThread, what |-> "call_tool"]}
    /\ class_to_path_mapping = [g \in Groups |-> PathOf(g)]
    /\ tool_schemas = ToolNames("fs")
    /\ tools = Range(ToolNames("fs"))
    /\ tasks = <<>>
    /\ th = [t \in Threads |-> IdleLocals]
    /\ out = [t \in Threads |-> NoOutcome]
    /\ obs = [t \in Threads |-> NoObs]
    /\ ncalls = 0
    /\ log_file = <<>>
    /\ Constructed

InitClose ==
    /\ \E ids \in {<<>>, <<SecondId>>} \cup
                  {<<c>> : c \in ClientIds} \cup
                  {<<c, SecondId>> : c \in ClientIds} :
         AfterGetClient(ids)
    /\ class_to_path_mapping = [g \in Groups |-> PathOf(g)]
    /\ log_info = <<>>
    /\ tool_schemas = ToolNames("fs")
    /\ tools = Range(ToolNames("fs"))
    /\ tasks = <<>>
    /\ th = [t \in Threads |-> IdleLocals]
    /\ out = [t \in Threads |-> NoOutcome]
    /\ obs = [t \in Threads |-> NoObs]
    /\ drivers = {}
    /\ ncalls = 0
    /\ log_file = <<>>
    /\ Constructed

\* The configured manager, and converters that have loaded nothing yet
InitSimulate ==
    /\ cls_instance = 1
    /\ managers = <<NewManagerInited>>
    /\ converter = [t \in Threads |-> ReadyConverter]
    /\ clients = [c \in SessionIds |-> NoEntry]
    /\ class_to_path_mapping = [g \in Groups |-> PathOf(g)]
    /\ log_info = <<>>
    /\ tool_schemas = ToolNames("fs")
    /\ tools = Range(ToolNames("fs"))
    /\ handles = <<>>
    /\ tasks = <<>>
    /\ th = [t \in Threads |-> IdleLocals]
    /\ out = [t \in Threads |-> NoOutcome]
    /\ obs = [t \in Threads |-> NoObs]
    /\ drivers = {}
    /\ ncalls = 0
    /\ log_file = <<>>

\* The process before MCPClientManager() was ever called: the class has no
\* instance, and no converter has a manager
InitConstruct ==
    /\ cls_instance = 0
    /\ managers = <<>>
    /\ converter = [t \in Threads |-> NewConverter]
    /\ clients = [c \in SessionIds |-> NoEntry]
    /\ class_to_path_mapping = <<>>
    /\ log_info = <<>>
    /\ tool_schemas = <<>>
    /\ tools = {}
    /\ handles = <<>>
    /\ tasks = <<>>
    /\ th = [t \in Threads |-> IdleLocals]
    /\ out = [t \in Threads |-> NoOutcome]
    /\ obs = [t \in Threads |-> NoObs]
    /\ drivers = {}
    /\ ncalls = 0
    /\ log_file = <<>>

----------------------------------------------------------------------------
(* Steps of a caller thread *)

\* execute_tool's records
Failure(error) == [t |-> "dict", success |-> FALSE, error |-> error]
Success(parsed_result, raw_result) ==
    [t |-> "dict", success |-> TRUE, result |-> parsed_result,
     raw_result |-> raw_result]

\* execute_tool without the inner try: the outer except gets the parse failure
execute_tool_record_no_inner_try(o) ==
    IF o.kind = "raise" THEN Ret(Failure(o.exc))
    ELSE IF o.val = None THEN Ret(Failure("Tool call returned no result"))
    ELSE IF json_loads_raises(o.val) THEN Ret(Failure("JSONDecodeError"))
    ELSE Ret(Success(json_loads(o.val), o.val))

\* execute_tool, from the outcome o of self.manager.call_tool(...): except
\* Exception; if raw_result is None; json.loads(raw_result), or the raw result
execute_tool_record(o) ==
    IF o.kind = "raise" THEN Ret(Failure(o.exc))
    ELSE IF o.val = None THEN Ret(Failure("Tool call returned no result"))
    ELSE IF json_loads_raises(o.val) THEN Ret(Success(o.val, o.val))
    ELSE Ret(Success(json_loads(o.val), o.val))

Goto(t, l, p) == th' = [th EXCEPT ![t] = [l EXCEPT !.pc = p]] /\ UNCHANGED out

\* the locals of a thread whose call has ended with o: those of
\* simulate_multi_turn_execution, at the statement after the call, if the
\* call was made by it
\* the locals of the thread after a call that ended with o: idle, or back in
\* the run that made the call
After(l, o) ==
    IF l.run = NoRun THEN IdleLocals
    ELSE [IdleLocals EXCEPT !.pc = l.run.pc, !.op = l.run.op,
                            !.run = [l.run EXCEPT !.ret = o]]

\* the call returns or raises: its frame is gone
Done(t, l, o) ==
    LET r == IF l.converter THEN execute_tool_record(o) ELSE o IN
    /\ th' = [th EXCEPT ![t] = After(l, r)]
    /\ out' = IF l.run = NoRun THEN [out EXCEPT ![t] = r] ELSE out

Submit(coro, t) == tasks' = Append(tasks, run_coroutine_threadsafe(coro, t))

\* run_forever() has not returned: no loop.stop() callback has run
LoopRunning ==
    \A i \in 1..Len(tasks) : ~(tasks[i].kind = "stop" /\ tasks[i].pc = "done")

\* the loop thread may go on to another coroutine or callback: it runs, and no
\* coroutine is inside add_log, which has no await
LoopTurn == LoopRunning /\ \A i \in 1..Len(tasks) : tasks[i].pc # "logging"

RemoveAt(s, i) == SubSeq(s, 1, i - 1) \o SubSeq(s, i + 1, Len(s))

\* call_tool hands a load to load_scenario(client_id, scenario = tool_args)
Route(o) ==
    CASE o.name = "get_client" -> "api"
      [] o.name = "load_scenario" -> "ls"
      [] o.name = "call_tool" /\ IsLoadName(o.tool) -> "ls"
      [] o.name = "call_tool" -> "ct"
      [] o.name = "initConfig" -> "ic"
      [] o.name = "shutdown" -> "sd"
      [] o.name = "set_status" -> "ss"
      [] o.name = "dump_log" -> "dl"
      [] o.name = "execute_tool" -> "ex"
      [] o.name = "MCPClientManager" -> "new"
      [] o.name = "create_client_manager" -> "ccm"
      [] o.name = "simulate_multi_turn_execution" -> "sim"
      [] o.name = "_compute_trace_score" -> "ts"
      [] o.name = "compute_score" -> "cs"
      [] OTHER -> "ca"

\* the first statement of the call
Entry(r) ==
    CASE r \in {"ca", "sd"} -> "ca_list"
      [] r = "ic" -> "ic_submit"
      [] r = "ss" -> "ss_get"
      [] r = "dl" -> "dl_open"
      [] r = "ex" -> "ex_lookup"
      [] r = "new" -> "new_check"
      [] r = "ccm" -> "ccm_check"
      [] r = "sim" -> "sim_start"
      [] r = "ts" -> "ts_start"
      [] r = "cs" -> "cs_try"
      [] OTHER -> "gc_check"

\* the last call of thread t submitted work and failed: it raised, or
\* call_tool caught the exception of its coroutine
FailedCall(t) ==
    /\ th[t].pc = "idle"
    /\ obs[t].issued > 0
    /\ obs[t].mark = "unset"
    /\ \/ out[t].kind = "raise" /\ out[t].exc # "KeyError"
       \/ obs[t].caught # "none"

Call(t, menu) ==
    /\ th[t].pc = "idle"
    /\ ncalls < MaxCalls
    /\ ncalls' = ncalls + 1
    /\ \E o \in menu :
         LET r == Route(o)
             eff == IF o.name = "call_tool" /\ r = "ls"
                    THEN [o EXCEPT !.scenario = o.args, !.check = FALSE]
                    ELSE o
         IN th' = [th EXCEPT ![t] =
                     [IdleLocals EXCEPT !.op = eff, !.cont = r, !.pc = Entry(r)]]
    /\ out' = [out EXCEPT ![t] = NoOutcome]
    /\ obs' = [obs EXCEPT ![t] =
                 [NoObs EXCEPT !.op = th'[t].op,
                               !.prev = IF FailedCall(t) THEN obs[t].op ELSE NoOp,
                               !.late = ~LoopRunning]]
    /\ UNCHANGED <<cls_instance, managers, converter,
                   clients, class_to_path_mapping, log_info, tool_schemas,
                   tools, handles, tasks, drivers, log_file>>

\* load_scenario without the status test: "if scenario:"
get_client_return_no_status_test(t, l) ==
    CASE l.cont = "api" ->
           Done(t, l, Ret(<<l.client, l.status>>)) /\ UNCHANGED obs
      [] l.cont = "ls" ->
           /\ obs' = [obs EXCEPT ![t].seen = IF l.status THEN "ready" ELSE "notready"]
           /\ IF Truthy(l.op.scenario)
              THEN Goto(t, l, "ls_submit")
              ELSE Done(t, l, Ret(AlreadyText))
      [] l.cont = "ct" -> Goto(t, l, "ct_submit") /\ UNCHANGED obs
      [] OTHER -> Goto(t, l, "sv_submit") /\ UNCHANGED obs

\* load_scenario whose test is 'if not status:', whatever the scenario
get_client_return_no_scenario_test(t, l) ==
    CASE l.cont = "api" ->
           Done(t, l, Ret(<<l.client, l.status>>)) /\ UNCHANGED obs
      [] l.cont = "ls" ->
           /\ obs' = [obs EXCEPT ![t].seen = IF l.status THEN "ready" ELSE "notready"]
           /\ IF ~l.status
              THEN Goto(t, l, "ls_submit")
              ELSE Done(t, l, Ret(AlreadyText))
      [] l.cont = "ct" -> Goto(t, l, "ct_submit") /\ UNCHANGED obs
      [] OTHER -> Goto(t, l, "sv_submit") /\ UNCHANGED obs

\* get_client returns (client, status) to the code that called it
get_client_return(t, l) ==
    CASE l.cont = "api" ->
           Done(t, l, Ret(<<l.client, l.status>>)) /\ UNCHANGED obs
      [] l.cont = "ls" ->
           /\ obs' = [obs EXCEPT ![t].seen = IF l.status THEN "ready" ELSE "notready"]
           /\ IF ~l.status /\ Truthy(l.op.scenario)
              THEN Goto(t, l, "ls_submit")
              ELSE Done(t, l, Ret(AlreadyText))
      [] l.cont = "ct" -> Goto(t, l, "ct_submit") /\ UNCHANGED obs
      [] OTHER -> Goto(t, l, "sv_submit") /\ UNCHANGED obs

\* if self.clients.get(client_id, None):
get_client_check(t) ==
    /\ th[t].pc = "gc_check"
    /\ Goto(t, th[t], IF clients[th[t].op.cid] # NoEntry THEN "gc_client" ELSE "gc_new")
    /\ UNCHANGED <<cls_instance, managers, converter,
                   clients, class_to_path_mapping, log_info, tool_schemas,
                   tools, handles, tasks, obs, drivers, ncalls,
                   log_file>>

\* self.clients[client_id]['client']
get_client_read_client(t) ==
    /\ th[t].pc = "gc_client"
    /\ LET e == clients[th[t].op.cid] IN
         IF e = NoEntry
         THEN Done(t, th[t], Raise("KeyError"))
         ELSE Goto(t, [th[t] EXCEPT !.client = e.client], "gc_status")
    /\ UNCHANGED <<cls_instance, managers, converter,
                   clients, class_to_path_mapping, log_info, tool_schemas,
                   tools, handles, tasks, obs, drivers, ncalls,
                   log_file>>

\* self.clients[client_id]['status'], and the return
get_client_read_status(t) ==
    /\ th[t].pc = "gc_status"
    /\ LET e == clients[th[t].op.cid] IN
         IF e = NoEntry
         THEN Done(t, th[t], Raise("KeyError")) /\ UNCHANGED obs
         ELSE get_client_return(t, [th[t] EXCEPT !.status = e.status])
    /\ UNCHANGED <<cls_instance, managers, converter,
                   clients, class_to_path_mapping, log_info, tool_schemas,
                   tools, handles, tasks, drivers, ncalls, log_file>>

\* get_client that falls back to a path made from the group's name:
\* Client(self.class_to_path_mapping.get(tool_class, default))
get_client_new_any_group(t) ==
    /\ th[t].pc = "gc_new"
    /\ handles' = Append(handles, NewClient(th[t].op.cid))
    /\ Goto(t, [th[t] EXCEPT !.client = Len(handles) + 1], "gc_store")
    /\ UNCHANGED <<cls_instance, managers, converter,
                   clients, class_to_path_mapping, log_info, tool_schemas,
                   tools, tasks, obs, drivers, ncalls, log_file>>

\* get_client that takes the path out of the catalog:
\* Client(self.class_to_path_mapping.pop(tool_class))
get_client_new_pop(t) ==
    /\ th[t].pc = "gc_new"
    /\ LET cid == th[t].op.cid IN
         IF ToolClass(cid) \notin DOMAIN class_to_path_mapping
         THEN /\ Done(t, th[t], Raise("KeyError"))
              /\ UNCHANGED <<handles, class_to_path_mapping>>
         ELSE /\ handles' = Append(handles, NewClient(cid))
              /\ class_to_path_mapping' =
                    [g \in DOMAIN class_to_path_mapping \ {ToolClass(cid)} |->
                       class_to_path_mapping[g]]
              /\ Goto(t, [th[t] EXCEPT !.client = Len(handles) + 1], "gc_store")
    /\ UNCHANGED <<cls_instance, managers, converter,
                   clients, log_info, tool_schemas,
                   tools, tasks, obs, drivers, ncalls, log_file>>

\* new_client = Client(self.class_to_path_mapping[tool_class])
get_client_new(t) ==
    /\ th[t].pc = "gc_new"
    /\ LET cid == th[t].op.cid IN
         IF ToolClass(cid) \notin DOMAIN class_to_path_mapping
         THEN Done(t, th[t], Raise("KeyError")) /\ UNCHANGED handles
         ELSE /\ handles' = Append(handles, NewClient(cid))
              /\ Goto(t, [th[t] EXCEPT !.client = Len(handles) + 1], "gc_store")
    /\ UNCHANGED <<cls_instance, managers, converter,
                   clients, class_to_path_mapping, log_info, tool_schemas,
                   tools, tasks, obs, drivers, ncalls, log_file>>

\* self.clients[client_id] = {"client": new_client, "status": False}; return
get_client_store(t) ==
    /\ th[t].pc = "gc_store"
    /\ clients' = [clients EXCEPT ![th[t].op.cid] =
                     [client |-> th[t].client, status |-> FALSE]]
    /\ get_client_return(t, [th[t] EXCEPT !.status = FALSE])
    /\ UNCHANGED <<cls_instance, managers, converter,
                   class_to_path_mapping, log_info, tool_schemas, tools,
                   handles, tasks, drivers, ncalls, log_file>>

\* the finished task whose future thread t waits on
DoneTask(t, i) ==
    /\ i \in 1..Len(tasks)
    /\ tasks[i].owner = t
    /\ tasks[i].kind # "stop"
    /\ tasks[i].pc = "done"

\* future = asyncio.run_coroutine_threadsafe(self._call_tool_async("load_scenario", ...))
load_scenario_submit(t) ==
    /\ th[t].pc = "ls_submit"
    /\ Submit(call_tool_coro(LoadTool, LoadArgs(th[t].op.scenario), th[t].client,
                             th[t].op.cid), t)
    /\ Goto(t, th[t], "ls_wait")
    /\ obs' = [obs EXCEPT ![t].issued = @ + 1]
    /\ UNCHANGED <<cls_instance, managers, converter,
                   clients, class_to_path_mapping, log_info, tool_schemas,
                   tools, handles, drivers, ncalls, log_file>>

\* load_scenario that reads the scenario back whatever check says
load_scenario_wait_always_check(t) ==
    /\ th[t].pc = "ls_wait"
    /\ \E i \in 1..Len(tasks) :
         /\ DoneTask(t, i)
         /\ tasks' = RemoveAt(tasks, i)
         /\ LET r == tasks[i].res IN
              IF r.kind = "exc"
              THEN Done(t, th[t], Raise(r.exc))
              ELSE Goto(t, [th[t] EXCEPT !.result = r.val, !.cont = "sv"], "gc_check")
    /\ UNCHANGED <<cls_instance, managers, converter,
                   clients, class_to_path_mapping, log_info, tool_schemas,
                   tools, handles, obs, drivers, ncalls, log_file>>

\* load_scenario whose except clause prints and does not re-raise
load_scenario_wait_no_reraise(t) ==
    /\ th[t].pc = "ls_wait"
    /\ \E i \in 1..Len(tasks) :
         /\ DoneTask(t, i)
         /\ tasks' = RemoveAt(tasks, i)
         /\ LET r == tasks[i].res IN
              IF r.kind = "exc"
              THEN Done(t, th[t], Ret(AlreadyText))
              ELSE IF th[t].op.check
              THEN Goto(t, [th[t] EXCEPT !.result = r.val, !.cont = "sv"], "gc_check")
              ELSE Goto(t, [th[t] EXCEPT !.result = r.val], "ss_get")
    /\ UNCHANGED <<cls_instance, managers, converter,
                   clients, class_to_path_mapping, log_info, tool_schemas,
                   tools, handles, obs, drivers, ncalls, log_file>>

\* result = future.result(); the except clause re-raises
load_scenario_wait(t) ==
    /\ th[t].pc = "ls_wait"
    /\ \E i \in 1..Len(tasks) :
         /\ DoneTask(t, i)
         /\ tasks' = RemoveAt(tasks, i)
         /\ LET r == tasks[i].res IN
              IF r.kind = "exc"
              THEN Done(t, th[t], Raise(r.exc))
              ELSE IF th[t].op.check
              THEN Goto(t, [th[t] EXCEPT !.result = r.val, !.cont = "sv"], "gc_check")
              ELSE Goto(t, [th[t] EXCEPT !.result = r.val], "ss_get")
    /\ UNCHANGED <<cls_instance, managers, converter,
                   clients, class_to_path_mapping, log_info, tool_schemas,
                   tools, handles, obs, drivers, ncalls, log_file>>

\* saved_scenario = self.call_tool(client_id, "save_scenario", {}): the submit
save_scenario_submit(t) ==
    /\ th[t].pc = "sv_submit"
    /\ Submit(call_tool_coro(SaveTool, EmptyDict, th[t].client, th[t].op.cid), t)
    /\ Goto(t, th[t], "sv_wait")
    /\ obs' = [obs EXCEPT ![t].issued = @ + 1]
    /\ UNCHANGED <<cls_instance, managers, converter,
                   clients, class_to_path_mapping, log_info, tool_schemas,
                   tools, handles, drivers, ncalls, log_file>>

\* call_tool without "return result"
call_tool_result_dropped(r) == None

\* what call_tool returns for a finished future: the text, or None once it has
\* printed the exception
call_tool_result(r) == IF r.kind = "ok" THEN r.val ELSE None

\* a comparison that accepts any echo that parses
Verified_any_json(scenario, saved) == ~json_loads_raises(saved)

\* scenario == json.loads(saved_scenario), inside try / except
Verified(scenario, saved) == ~json_loads_raises(saved) /\ scenario = json_loads(saved)

\* call_tool returns the save; the comparison; return result when it fails
save_scenario_wait(t) ==
    /\ th[t].pc = "sv_wait"
    /\ \E i \in 1..Len(tasks) :
         /\ DoneTask(t, i)
         /\ tasks' = RemoveAt(tasks, i)
         /\ LET saved == call_tool_result(tasks[i].res)
                ok == Verified(th[t].op.scenario, saved)
            IN /\ obs' = [obs EXCEPT ![t].echo = saved]
               /\ IF ok
                  THEN Goto(t, th[t], "ss_get")
                  ELSE Done(t, th[t], Ret(th[t].result))
    /\ UNCHANGED <<cls_instance, managers, converter,
                   clients, class_to_path_mapping, log_info, tool_schemas,
                   tools, handles, drivers, ncalls, log_file>>

\* set_status without the test of the entry
set_status_get_no_check(t) ==
    /\ th[t].pc = "ss_get"
    /\ Goto(t, th[t], "ss_write")
    /\ UNCHANGED <<cls_instance, managers, converter,
                   clients, class_to_path_mapping, log_info, tool_schemas,
                   tools, handles, tasks, obs, drivers, ncalls, log_file>>

\* set_status: client_info = self.clients.get(client_id); if client_info:
set_status_get(t) ==
    /\ th[t].pc = "ss_get"
    /\ IF clients[th[t].op.cid] # NoEntry
       THEN Goto(t, th[t], "ss_write") /\ UNCHANGED obs
       ELSE /\ Done(t, th[t], Ret(th[t].result))
            /\ obs' = [obs EXCEPT ![t].mark = "absent"]
    /\ UNCHANGED <<cls_instance, managers, converter,
                   clients, class_to_path_mapping, log_info, tool_schemas,
                   tools, handles, tasks, drivers, ncalls, log_file>>

\* self.clients[client_id]['status'] = True, and load_scenario's return. A
\* KeyError is swallowed by the bare except of the check branch, and re-raised
\* by the outer except otherwise.
set_status_write(t) ==
    /\ th[t].pc = "ss_write"
    /\ LET cid == th[t].op.cid IN
         IF clients[cid] = NoEntry
         THEN /\ obs' = [obs EXCEPT ![t].mark = "keyerror"]
              /\ Done(t, th[t], IF th[t].op.check THEN Ret(th[t].result)
                                                  ELSE Raise("KeyError"))
              /\ UNCHANGED clients
         ELSE /\ clients' = [clients EXCEPT ![cid].status = TRUE]
              /\ obs' = [obs EXCEPT ![t].mark = "marked"]
              /\ Done(t, th[t], Ret(th[t].result))
    /\ UNCHANGED <<cls_instance, managers, converter,
                   class_to_path_mapping, log_info, tool_schemas, tools,
                   handles, tasks, drivers, ncalls, log_file>>

\* call_tool: future = asyncio.run_coroutine_threadsafe(self._call_tool_async(...))
call_tool_submit(t) ==
    /\ th[t].pc = "ct_submit"
    /\ Submit(call_tool_coro(th[t].op.tool, th[t].op.args, th[t].client,
                             th[t].op.cid), t)
    /\ Goto(t, th[t], "ct_wait")
    /\ obs' = [obs EXCEPT ![t].issued = @ + 1]
    /\ UNCHANGED <<cls_instance, managers, converter,
                   clients, class_to_path_mapping, log_info, tool_schemas,
                   tools, handles, drivers, ncalls, log_file>>

\* call_tool that returns without waiting for the future
call_tool_wait_no_block(t) ==
    /\ th[t].pc = "ct_wait"
    /\ Done(t, th[t], Ret(None))
    /\ UNCHANGED <<cls_instance, managers, converter,
                   clients, class_to_path_mapping, log_info, tool_schemas,
                   tools, handles, tasks, obs, drivers, ncalls,
                   log_file>>

\* call_tool whose except clauses drop every session: self.clients = {}
call_tool_wait_reset_on_error(t) ==
    /\ th[t].pc = "ct_wait"
    /\ \E i \in 1..Len(tasks) :
         /\ DoneTask(t, i)
         /\ tasks' = RemoveAt(tasks, i)
         /\ Done(t, th[t], Ret(call_tool_result(tasks[i].res)))
         /\ obs' = [obs EXCEPT ![t].caught =
                      IF tasks[i].res.kind = "exc" THEN tasks[i].res.exc ELSE "none"]
         /\ clients' = IF tasks[i].res.kind = "exc"
                       THEN [c \in DOMAIN clients |-> NoEntry]
                       ELSE clients
    /\ UNCHANGED <<cls_instance, managers, converter,
                   class_to_path_mapping, log_info, tool_schemas,
                   tools, handles, drivers, ncalls, log_file>>

\* call_tool: result = future.result(); both except clauses print and fall through
call_tool_wait(t) ==
    /\ th[t].pc = "ct_wait"
    /\ \E i \in 1..Len(tasks) :
         /\ DoneTask(t, i)
         /\ tasks' = RemoveAt(tasks, i)
         /\ Done(t, th[t], Ret(call_tool_result(tasks[i].res)))
         /\ obs' = [obs EXCEPT ![t].caught =
                      IF tasks[i].res.kind = "exc" THEN tasks[i].res.exc ELSE "none"]
    /\ UNCHANGED <<cls_instance, managers, converter,
                   clients, class_to_path_mapping, log_info, tool_schemas,
                   tools, handles, drivers, ncalls, log_file>>

\* initConfig: the config is read and accepted (is_valid_mcp_servers returns
\* True); future = asyncio.run_coroutine_threadsafe(self.init_config_async(config))
init_config_submit(t) ==
    /\ th[t].pc = "ic_submit"
    /\ Submit(init_config_coro(th[t].op.args), t)
    /\ Goto(t, th[t], "ic_wait")
    /\ obs' = [obs EXCEPT ![t].issued = @ + 1]
    /\ UNCHANGED <<cls_instance, managers, converter,
                   clients, class_to_path_mapping, log_info, tool_schemas,
                   tools, handles, drivers, ncalls, log_file>>

\* initConfig that waits with a deadline: future.result(timeout) raises
\* TimeoutError when the coroutine has not ended
init_config_wait_deadline(t) ==
    /\ th[t].pc = "ic_wait"
    /\ \/ \E i \in 1..Len(tasks) :
            /\ DoneTask(t, i)
            /\ tasks' = RemoveAt(tasks, i)
            /\ Done(t, th[t], IF tasks[i].res.kind = "ok" THEN Ret(tasks[i].res.val)
                                                          ELSE Raise(tasks[i].res.exc))
       \/ /\ ~\E i \in 1..Len(tasks) : DoneTask(t, i)
          /\ Done(t, th[t], Raise("TimeoutError"))
          /\ UNCHANGED tasks
    /\ UNCHANGED <<cls_instance, managers, converter,
                   clients, class_to_path_mapping, log_info, tool_schemas,
                   tools, handles, obs, drivers, ncalls, log_file>>

\* initConfig: return future.result(), or raise e
init_config_wait(t) ==
    /\ th[t].pc = "ic_wait"
    /\ \E i \in 1..Len(tasks) :
         /\ DoneTask(t, i)
         /\ tasks' = RemoveAt(tasks, i)
         /\ Done(t, th[t], IF tasks[i].res.kind = "ok" THEN Ret(tasks[i].res.val)
                                                       ELSE Raise(tasks[i].res.exc))
    /\ UNCHANGED <<cls_instance, managers, converter,
                   clients, class_to_path_mapping, log_info, tool_schemas,
                   tools, handles, obs, drivers, ncalls, log_file>>

\* close_all_clients: list(self.clients.keys())
close_all_clients_list(t) ==
    /\ th[t].pc = "ca_list"
    /\ LET ids == {c \in DOMAIN clients : clients[c] # NoEntry} IN
         Goto(t, [th[t] EXCEPT !.todo = ids],
              IF ids = {} THEN "ca_clear" ELSE "ca_submit")
    /\ UNCHANGED <<cls_instance, managers, converter,
                   clients, class_to_path_mapping, log_info, tool_schemas,
                   tools, handles, tasks, obs, drivers, ncalls,
                   log_file>>

\* close_all_clients: one run_coroutine_threadsafe(self.close_client(client_id))
close_all_clients_submit(t) ==
    /\ th[t].pc = "ca_submit"
    /\ \E c \in th[t].todo :
         /\ Submit(close_client_coro(c), t)
         /\ Goto(t, [th[t] EXCEPT !.todo = @ \ {c}],
                 IF th[t].todo = {c} THEN "ca_wait" ELSE "ca_submit")
    /\ obs' = [obs EXCEPT ![t].issued = @ + 1]
    /\ UNCHANGED <<cls_instance, managers, converter,
                   clients, class_to_path_mapping, log_info, tool_schemas,
                   tools, handles, drivers, ncalls, log_file>>

\* a close_client coroutine that thread t submitted
MyClose(t, task) == task.owner = t /\ task.kind = "close"

\* shutdown that goes on to stop the loop without future.result()
close_all_clients_wait_no_result(t) ==
    /\ th[t].pc = "ca_wait"
    /\ Goto(t, th[t], "ca_clear")
    /\ UNCHANGED <<cls_instance, managers, converter,
                   clients, class_to_path_mapping, log_info, tool_schemas,
                   tools, handles, tasks, obs, drivers, ncalls, log_file>>

\* close_all_clients: future.result() for each future, exceptions printed
close_all_clients_wait(t) ==
    /\ th[t].pc = "ca_wait"
    /\ \A i \in 1..Len(tasks) : MyClose(t, tasks[i]) => tasks[i].pc = "done"
    /\ tasks' = SelectSeq(tasks, LAMBDA k : ~MyClose(t, k))
    /\ Goto(t, th[t], "ca_clear")
    /\ UNCHANGED <<cls_instance, managers, converter,
                   clients, class_to_path_mapping, log_info, tool_schemas,
                   tools, handles, obs, drivers, ncalls, log_file>>

\* self.log_info names a new dict: an iteration that dump_log began goes on
\* over the dict it began with, which nothing changes any more
Detached(l, log) ==
    IF l.iter.t = "live"
    THEN [l EXCEPT !.iter = [t |-> "old", n |-> l.iter.n, dict |-> log]]
    ELSE l

\* close_all_clients: self.log_info = {}
close_all_clients_clear(t) ==
    /\ th[t].pc = "ca_clear"
    /\ log_info' = <<>>
    /\ th' = [u \in Threads |->
                IF u # t THEN Detached(th[u], log_info)
                ELSE IF th[t].cont = "sd" THEN [th[t] EXCEPT !.pc = "sd_stop"]
                ELSE After(th[t], Ret(None))]
    /\ out' = IF th[t].cont = "sd" \/ th[t].run # NoRun THEN out
              ELSE [out EXCEPT ![t] = Ret(None)]
    /\ UNCHANGED <<cls_instance, managers, converter,
                   clients, class_to_path_mapping, tool_schemas, tools,
                   handles, tasks, obs, drivers, ncalls, log_file>>

\* execute_tool: tool_prefix = tool_name.split("-", 1)[0]; client_id =
\* self.client_ids.get(tool_prefix); the failure record if there is none;
\* self.manager.call_tool(tool_name, args, client_id), which begins with its
\* test of the tool's name
execute_tool_lookup(t) ==
    /\ th[t].pc = "ex_lookup"
    /\ LET tool_prefix == th[t].op.tool[1] IN
         IF tool_prefix \notin DOMAIN converter[t].client_ids
         THEN Done(t, th[t], Ret(Failure("Client not initialized")))
         ELSE LET o == OpCallTool(th[t].op.tool, th[t].op.args,
                                  converter[t].client_ids[tool_prefix])
                  eff == IF Route(o) = "ls"
                         THEN [o EXCEPT !.scenario = o.args, !.check = FALSE]
                         ELSE o
              IN Goto(t, [IdleLocals EXCEPT !.op = eff, !.cont = Route(o),
                                            !.converter = TRUE,
                                            !.run = th[t].run], "gc_check")
    /\ UNCHANGED <<cls_instance, managers, converter,
                   clients, class_to_path_mapping, log_info, tool_schemas,
                   tools, handles, tasks, obs, drivers, ncalls, log_file>>

\* dump_log: os.makedirs(...); jsonlines.open(log_dump_path, mode='a'), an
\* exception of which is printed; self.log_info.items()
dump_log_open(t) ==
    /\ th[t].pc = "dl_open"
    /\ \E opened \in BOOLEAN :
         IF opened
         THEN /\ Goto(t, [th[t] EXCEPT
                            !.todo = DOMAIN log_info,
                            !.iter = [t |-> "live",
                                      n |-> Cardinality(DOMAIN log_info)]],
                      "dl_next")
              /\ UNCHANGED obs
         ELSE /\ Done(t, th[t], Ret(None))
              /\ obs' = [obs EXCEPT ![t].mark = "failed"]
    /\ UNCHANGED <<cls_instance, managers, converter,
                   clients, class_to_path_mapping, log_info, tool_schemas,
                   tools, handles, tasks, drivers, ncalls, log_file>>

\* dump_log that lets the exception of the write leave
dump_log_next_no_except(t) ==
    /\ th[t].pc = "dl_next"
    /\ Done(t, th[t], Raise("OSError"))
    /\ obs' = [obs EXCEPT ![t].mark = "failed"]
    /\ UNCHANGED <<cls_instance, managers, converter,
                   clients, class_to_path_mapping, log_info, tool_schemas,
                   tools, handles, tasks, drivers, ncalls, log_file>>

\* dump_log: the next (client_id, logs) of the iteration, which raises
\* RuntimeError if the dict has changed size, and writer.write({client_id:
\* logs}); every exception is printed; the end of the iteration closes the file
dump_log_next(t) ==
    /\ th[t].pc = "dl_next"
    /\ LET it == th[t].iter
           dict == IF it.t = "live" THEN log_info ELSE it.dict
       IN IF Cardinality(DOMAIN dict) # it.n
          THEN /\ Done(t, th[t], Ret(None))
               /\ obs' = [obs EXCEPT ![t].mark = "failed"]
               /\ UNCHANGED log_file
          ELSE IF th[t].todo = {}
          THEN /\ Done(t, th[t], Ret(None))
               /\ obs' = [obs EXCEPT ![t].mark = "dumped"]
               /\ UNCHANGED log_file
          ELSE \E client_id \in th[t].todo, written \in BOOLEAN :
                 IF written
                 THEN /\ log_file' = Append(log_file, [id |-> client_id,
                                                       logs |-> dict[client_id]])
                      /\ Goto(t, [th[t] EXCEPT !.todo = @ \ {client_id}], "dl_next")
                      /\ obs' = [obs EXCEPT ![t].wrote = @ + 1]
                 ELSE /\ Done(t, th[t], Ret(None))
                      /\ obs' = [obs EXCEPT ![t].mark = "failed"]
                      /\ UNCHANGED log_file
    /\ UNCHANGED <<cls_instance, managers, converter,
                   clients, class_to_path_mapping, log_info, tool_schemas,
                   tools, handles, tasks, drivers, ncalls>>

\* the callback self.loop.stop, handed to the loop by thread t
stop_callback(t) ==
    [owner |-> t, runner |-> LoopThread, kind |-> "stop", cid |-> <<>>,
     h |-> 0, tool |-> <<>>, args |-> None, k |-> 0, pc |-> "queued",
     res |-> Pending]

\* shutdown: self.loop.call_soon_threadsafe(self.loop.stop)
shutdown_stop(t) ==
    /\ th[t].pc = "sd_stop"
    /\ tasks' = Append(tasks, stop_callback(t))
    /\ Goto(t, th[t], "sd_join")
    /\ obs' = [obs EXCEPT ![t].mark = "asked"]
    /\ UNCHANGED <<cls_instance, managers, converter,
                   clients, class_to_path_mapping, log_info, tool_schemas,
                   tools, handles, drivers, ncalls, log_file>>

\* shutdown: self.loop_thread.join(timeout=timeout) returns when the thread
\* has ended or the timeout has passed; if the thread is alive a warning is
\* printed; shutdown returns None
shutdown_join(t) ==
    /\ th[t].pc = "sd_join"
    /\ \E is_alive \in BOOLEAN :
         /\ is_alive => LoopRunning
         /\ ~is_alive => ~LoopRunning
         /\ obs' = [obs EXCEPT ![t].mark = IF is_alive THEN "warned" ELSE "joined"]
    /\ Done(t, th[t], Ret(None))
    /\ UNCHANGED <<cls_instance, managers, converter,
                   clients, class_to_path_mapping, log_info, tool_schemas,
                   tools, handles, tasks, drivers, ncalls, log_file>>

----------------------------------------------------------------------------
(* Construction of the manager *)

\* the constructor returns self: to its caller, or to create_client_manager,
\* which stores it in self.manager and goes on to initConfig
construct_return(t, l) ==
    IF l.cont = "ccm"
    THEN /\ converter' = [converter EXCEPT ![t].manager = l.self]
         /\ Goto(t, l, "ccm_init_config")
    ELSE /\ Done(t, l, Ret(Obj(l.self)))
         /\ UNCHANGED converter

\* create_client_manager: if self.manager is None:
create_client_manager_check(t) ==
    /\ th[t].pc = "ccm_check"
    /\ IF converter[t].manager = 0
       THEN Goto(t, th[t], "new_check")
       ELSE Done(t, th[t], Ret(Obj(converter[t].manager)))
    /\ UNCHANGED <<cls_instance, managers, converter, clients,
                   class_to_path_mapping, log_info, tool_schemas, tools,
                   handles, tasks, obs, drivers, ncalls, log_file>>

\* __new__: if cls._instance is None:
new_check(t) ==
    /\ th[t].pc = "new_check"
    /\ Goto(t, th[t], IF cls_instance = 0 THEN "new_create" ELSE "new_return")
    /\ UNCHANGED <<cls_instance, managers, converter, clients,
                   class_to_path_mapping, log_info, tool_schemas, tools,
                   handles, tasks, obs, drivers, ncalls, log_file>>

\* __new__: super(MCPClientManager, cls).__new__(cls, ...) makes an object
new_create(t) ==
    /\ th[t].pc = "new_create"
    /\ managers' = Append(managers, NewManager)
    /\ Goto(t, [th[t] EXCEPT !.self = Len(managers) + 1], "new_store")
    /\ UNCHANGED <<cls_instance, converter, clients,
                   class_to_path_mapping, log_info, tool_schemas, tools,
                   handles, tasks, obs, drivers, ncalls, log_file>>

\* __new__: cls._instance = the object
new_store(t) ==
    /\ th[t].pc = "new_store"
    /\ cls_instance' = th[t].self
    /\ Goto(t, th[t], "new_return")
    /\ UNCHANGED <<managers, converter, clients,
                   class_to_path_mapping, log_info, tool_schemas, tools,
                   handles, tasks, obs, drivers, ncalls, log_file>>

\* __new__: return cls._instance; __init__ is then called on that object
new_return(t) ==
    /\ th[t].pc = "new_return"
    /\ Goto(t, [th[t] EXCEPT !.self = cls_instance], "init_check")
    /\ UNCHANGED <<cls_instance, managers, converter, clients,
                   class_to_path_mapping, log_info, tool_schemas, tools,
                   handles, tasks, obs, drivers, ncalls, log_file>>

\* __init__: if not hasattr(self, 'clients'):
init_check(t) ==
    /\ th[t].pc = "init_check"
    /\ IF "clients" \in managers[th[t].self].attrs
       THEN construct_return(t, th[t])
       ELSE Goto(t, th[t], "init_clients") /\ UNCHANGED converter
    /\ UNCHANGED <<cls_instance, managers, clients,
                   class_to_path_mapping, log_info, tool_schemas, tools,
                   handles, tasks, obs, drivers, ncalls, log_file>>

\* the first object's attributes are the variables of the model
Assigned(t, name) ==
    managers' = [managers EXCEPT ![th[t].self].attrs = @ \cup {name}]

\* __init__: self.clients = {}
init_clients(t) ==
    /\ th[t].pc = "init_clients"
    /\ Assigned(t, "clients")
    /\ clients' = IF th[t].self = 1 THEN [c \in SessionIds |-> NoEntry] ELSE clients
    /\ Goto(t, th[t], "init_mapping")
    /\ UNCHANGED <<cls_instance, converter,
                   class_to_path_mapping, log_info, tool_schemas, tools,
                   handles, tasks, obs, drivers, ncalls, log_file>>

\* __init__: self.class_to_path_mapping = {}
init_mapping(t) ==
    /\ th[t].pc = "init_mapping"
    /\ Assigned(t, "class_to_path_mapping")
    /\ class_to_path_mapping' = IF th[t].self = 1 THEN <<>> ELSE class_to_path_mapping
    /\ Goto(t, th[t], "init_log")
    /\ UNCHANGED <<cls_instance, converter, clients,
                   log_info, tool_schemas, tools,
                   handles, tasks, obs, drivers, ncalls, log_file>>

\* __init__: self.log_info = {}
init_log(t) ==
    /\ th[t].pc = "init_log"
    /\ Assigned(t, "log_info")
    /\ log_info' = IF th[t].self = 1 THEN <<>> ELSE log_info
    /\ Goto(t, th[t], "init_loop")
    /\ UNCHANGED <<cls_instance, converter, clients,
                   class_to_path_mapping, tool_schemas, tools,
                   handles, tasks, obs, drivers, ncalls, log_file>>

\* __init__: self.loop = asyncio.new_event_loop()
init_loop(t) ==
    /\ th[t].pc = "init_loop"
    /\ managers' = [managers EXCEPT ![th[t].self] =
                      [@ EXCEPT !.attrs = @ \cup {"loop"},
                                !.loops = @ + 1,
                                !.loop = managers[th[t].self].loops + 1]]
    /\ Goto(t, th[t], "init_thread")
    /\ UNCHANGED <<cls_instance, converter, clients,
                   class_to_path_mapping, log_info, tool_schemas, tools,
                   handles, tasks, obs, drivers, ncalls, log_file>>

\* __init__: self.loop_thread = threading.Thread(target=self.start_loop, daemon=True)
init_thread(t) ==
    /\ th[t].pc = "init_thread"
    /\ managers' = [managers EXCEPT ![th[t].self] =
                      [@ EXCEPT !.attrs = @ \cup {"loop_thread"},
                                !.threads = @ + 1,
                                !.loop_thread = managers[th[t].self].threads + 1]]
    /\ Goto(t, th[t], "init_start")
    /\ UNCHANGED <<cls_instance, converter, clients,
                   class_to_path_mapping, log_info, tool_schemas, tools,
                   handles, tasks, obs, drivers, ncalls, log_file>>

\* __init__: self.loop_thread.start(), a RuntimeError if that Thread object was
\* started already; the new thread runs start_loop, which ends at once with a
\* RuntimeError of its own if self.loop is running already
init_start(t) ==
    /\ th[t].pc = "init_start"
    /\ LET m == managers[th[t].self] IN
         IF m.loop_thread \in m.started
         THEN /\ Done(t, th[t], Raise("RuntimeError"))
              /\ UNCHANGED <<managers, converter>>
         ELSE /\ managers' = [managers EXCEPT ![th[t].self] =
                                [@ EXCEPT !.started = @ \cup {m.loop_thread},
                                          !.running = @ \cup {m.loop}]]
              /\ construct_return(t, th[t])
    /\ UNCHANGED <<cls_instance, clients,
                   class_to_path_mapping, log_info, tool_schemas, tools,
                   handles, tasks, obs, drivers, ncalls, log_file>>

\* create_client_manager: self.manager.initConfig(str(self.manager_config_path)),
\* as a whole: an AttributeError when the object has no loop yet; otherwise
\* the coroutine runs once the loop does, records the server's path and lists
\* its tools (or fails to connect); return self.manager
create_client_manager_init_config(t) ==
    /\ th[t].pc = "ccm_init_config"
    /\ LET self == converter[t].manager
           m == managers[self]
       IN IF "loop" \notin m.attrs
          THEN /\ Done(t, th[t], Raise("AttributeError"))
               /\ UNCHANGED <<class_to_path_mapping, tool_schemas, tools>>
          ELSE /\ m.loop \in m.running
               /\ \E listed \in BOOLEAN :
                    /\ Done(t, th[t], IF listed THEN Ret(Obj(self))
                                                ELSE Raise("ConnectError"))
                    /\ IF self = 1
                       THEN /\ class_to_path_mapping' = [g \in Groups |-> PathOf(g)]
                            /\ tool_schemas' = IF listed THEN ToolNames("fs") ELSE <<>>
                            /\ tools' = IF listed THEN Range(ToolNames("fs")) ELSE {}
                       ELSE UNCHANGED <<class_to_path_mapping, tool_schemas, tools>>
    /\ UNCHANGED <<cls_instance, managers, converter, clients, log_info,
                   handles, tasks, obs, drivers, ncalls, log_file>>

----------------------------------------------------------------------------
(* The converter's simulate_multi_turn_execution *)

\* the values uuid.uuid4().hex takes, one for each _load_initial_scenarios
Uuids == <<"1", "2">>

\* the class names _load_initial_scenarios goes through, in its order
ClassOrder == <<"fs", "math">>

\* the elements of the sequence seq that are in the set S, in order
RECURSIVE Filter(_, _)
Filter(seq, S) ==
    IF seq = <<>> THEN <<>>
    ELSE (IF Head(seq) \in S THEN <<Head(seq)>> ELSE <<>>) \o Filter(Tail(seq), S)

\* d[k] = v added to the mapping d
Put(d, k, v) == [x \in DOMAIN d \cup {k} |-> IF x = k THEN v ELSE d[x]]

\* [], and the execution history of n turns
PyList(n) == [t |-> "list", len |-> n]

\* the locals of simulate_multi_turn_execution and of the methods it calls
\* into: the statement to resume at, the call's arguments, the classes still
\* to load, the id made for the class being loaded, the number of successful
\* loads, the turn, the calls of the turn still to make, the classes
\* save_all_scenarios has still to save and whether it saves before or after
\* the turn's calls, and the outcome of the manager call just made
NewRun(o) ==
    [pc |-> "sim_reset", op |-> o, classes |-> <<>>, cid |-> <<>>,
     successful |-> 0, turn |-> 1, actions |-> <<>>, todo |-> <<>>,
     stage |-> "before", ret |-> NoOutcome]

\* the run calls a method of the manager (or its own execute_tool) and will
\* resume at the statement resume
Nested(t, run, o, resume) ==
    LET r == Route(o) IN
    /\ th' = [th EXCEPT ![t] =
                [IdleLocals EXCEPT !.op = o, !.cont = r, !.pc = Entry(r),
                                   !.run = [run EXCEPT !.pc = resume]]]
    /\ UNCHANGED out

\* the run goes on at the statement p
Resume(t, run, p) ==
    /\ th' = [th EXCEPT ![t].run = run, ![t].pc = p]
    /\ UNCHANGED out

\* simulate_multi_turn_execution returns
Return(t, o) ==
    /\ th' = [th EXCEPT ![t] = IdleLocals]
    /\ out' = [out EXCEPT ![t] = o]

\* _load_initial_scenarios: manager = self.create_client_manager();
\* manager.close_all_clients()
simulate_start(t) ==
    /\ th[t].pc = "sim_start"
    /\ converter[t].runs < Len(Uuids)
    /\ Nested(t, NewRun(th[t].op), OpCloseAll, "sim_reset")
    /\ UNCHANGED <<cls_instance, managers, converter, clients,
                   class_to_path_mapping, log_info, tool_schemas, tools,
                   handles, tasks, obs, drivers, ncalls, log_file>>

\* _load_initial_scenarios: self.client_ids = {}; prepared_scenario; the loop
\* over the class names begins
simulate_reset(t) ==
    /\ th[t].pc = "sim_reset"
    /\ IF th[t].run.ret.kind = "raise"
       THEN Return(t, th[t].run.ret) /\ UNCHANGED converter
       ELSE /\ converter' = [converter EXCEPT ![t].client_ids = <<>>,
                                              ![t].runs = @ + 1]
            /\ Resume(t, [th[t].run EXCEPT
                            !.classes = Filter(ClassOrder,
                                               DOMAIN th[t].op.scenario.items)],
                      "sim_class")
    /\ UNCHANGED <<cls_instance, managers, clients,
                   class_to_path_mapping, log_info, tool_schemas, tools,
                   handles, tasks, obs, drivers, ncalls, log_file>>

\* _load_initial_scenarios, for the next class: math gets an id and no load;
\* another class gets an id and manager.load_scenario(client_id, scenario,
\* check=False); after the last class, load_results is returned
simulate_load_class(t) ==
    /\ th[t].pc = "sim_class"
    /\ LET run == th[t].run
           class_name == Head(run.classes)
           client_id == <<class_name, Uuids[converter[t].runs]>>
       IN IF run.classes = <<>>
          THEN Resume(t, run, "sim_test") /\ UNCHANGED converter
          ELSE IF class_name = "math"
          THEN /\ converter' = [converter EXCEPT
                                  ![t].client_ids = Put(@, class_name, client_id)]
               /\ Resume(t, [run EXCEPT !.classes = Tail(@),
                                        !.successful = @ + 1], "sim_class")
          ELSE /\ Nested(t, [run EXCEPT !.cid = client_id],
                         OpLoadScenario(client_id,
                                        th[t].op.scenario.items[class_name], FALSE),
                         "sim_loaded")
               /\ UNCHANGED converter
    /\ UNCHANGED <<cls_instance, managers, clients,
                   class_to_path_mapping, log_info, tool_schemas, tools,
                   handles, tasks, obs, drivers, ncalls, log_file>>

\* _load_initial_scenarios: load_scenario has returned, and the id is kept in
\* self.client_ids, or it has raised, and the failure is only listed
simulate_loaded(t) ==
    /\ th[t].pc = "sim_loaded"
    /\ LET run == th[t].run IN
         IF run.ret.kind = "ret"
         THEN /\ converter' = [converter EXCEPT
                                 ![t].client_ids = Put(@, Head(run.classes), run.cid)]
              /\ Resume(t, [run EXCEPT !.classes = Tail(@),
                                       !.successful = @ + 1], "sim_class")
         ELSE /\ Resume(t, [run EXCEPT !.classes = Tail(@)], "sim_class")
              /\ UNCHANGED converter
    /\ UNCHANGED <<cls_instance, managers, clients,
                   class_to_path_mapping, log_info, tool_schemas, tools,
                   handles, tasks, obs, drivers, ncalls, log_file>>

\* simulate_multi_turn_execution: if not successful: return []
simulate_test(t) ==
    /\ th[t].pc = "sim_test"
    /\ IF th[t].run.successful = 0
       THEN Return(t, Ret(PyList(0)))
       ELSE Resume(t, th[t].run, "sim_turn")
    /\ UNCHANGED <<cls_instance, managers, converter, clients,
                   class_to_path_mapping, log_info, tool_schemas, tools,
                   handles, tasks, obs, drivers, ncalls, log_file>>

\* the next turn: scenario_before = self.save_all_scenarios() begins; after
\* the last turn the cleanup begins
simulate_turn(t) ==
    /\ th[t].pc = "sim_turn"
    /\ LET run == th[t].run
           turns == th[t].op.args.turns
       IN IF run.turn > Len(turns)
          THEN Resume(t, run, "sim_cleanup")
          ELSE Resume(t, [run EXCEPT
                            !.actions = turns[run.turn], !.stage = "before",
                            !.todo = Filter(ClassOrder, DOMAIN converter[t].client_ids)],
                      "sim_save")
    /\ UNCHANGED <<cls_instance, managers, converter, clients,
                   class_to_path_mapping, log_info, tool_schemas, tools,
                   handles, tasks, obs, drivers, ncalls, log_file>>

\* save_all_scenarios, for the next class of self.client_ids: math is ready;
\* for another class self.manager.call_tool("save_scenario", {}, client_id);
\* after the last class it returns, to the turn's calls or to the next turn
simulate_save(t) ==
    /\ th[t].pc = "sim_save"
    /\ LET run == th[t].run IN
         IF run.todo = <<>>
         THEN IF run.stage = "before"
              THEN Resume(t, run, "sim_action")
              ELSE Resume(t, [run EXCEPT !.turn = @ + 1], "sim_turn")
         ELSE IF Head(run.todo) = "math"
         THEN Resume(t, [run EXCEPT !.todo = Tail(@)], "sim_save")
         ELSE Nested(t, [run EXCEPT !.todo = Tail(@)],
                     OpCallTool(SaveTool, EmptyDict,
                                converter[t].client_ids[Head(run.todo)]),
                     "sim_save")
    /\ UNCHANGED <<cls_instance, managers, converter, clients,
                   class_to_path_mapping, log_info, tool_schemas, tools,
                   handles, tasks, obs, drivers, ncalls, log_file>>

\* the next call of the turn: result = self.execute_tool(new_func_name,
\* new_params); after the last, scenario_after = self.save_all_scenarios()
simulate_action(t) ==
    /\ th[t].pc = "sim_action"
    /\ LET run == th[t].run IN
         IF run.actions = <<>>
         THEN Resume(t, [run EXCEPT
                           !.stage = "after",
                           !.todo = Filter(ClassOrder, DOMAIN converter[t].client_ids)],
                     "sim_save")
         ELSE Nested(t, [run EXCEPT !.actions = Tail(@)],
                     OpExecuteTool(Head(run.actions).tool, Head(run.actions).args),
                     "sim_action")
    /\ UNCHANGED <<cls_instance, managers, converter, clients,
                   class_to_path_mapping, log_info, tool_schemas, tools,
                   handles, tasks, obs, drivers, ncalls, log_file>>

\* if self.manager is not None: self.manager.close_all_clients()
simulate_cleanup(t) ==
    /\ th[t].pc = "sim_cleanup"
    /\ Nested(t, th[t].run, OpCloseAll, "sim_clear")
    /\ UNCHANGED <<cls_instance, managers, converter, clients,
                   class_to_path_mapping, log_info, tool_schemas, tools,
                   handles, tasks, obs, drivers, ncalls, log_file>>

\* self.client_ids = {}; return execution_history
simulate_clear(t) ==
    /\ th[t].pc = "sim_clear"
    /\ IF th[t].run.ret.kind = "raise"
       THEN Return(t, th[t].run.ret) /\ UNCHANGED converter
       ELSE /\ converter' = [converter EXCEPT ![t].client_ids = <<>>]
            /\ Return(t, Ret(PyList(Len(th[t].op.args.turns))))
    /\ UNCHANGED <<cls_instance, managers, clients,
                   class_to_path_mapping, log_info, tool_schemas, tools,
                   handles, tasks, obs, drivers, ncalls, log_file>>

----------------------------------------------------------------------------
(* The reward score *)

\* the order sorted() puts the argument names in
KeyOrder == <<"a", "b">>

\* the value of the last item of items with the key k
RECURSIVE Lookup(_, _)
Lookup(items, k) ==
    IF items[Len(items)][1] = k THEN items[Len(items)][2]
    ELSE Lookup(SubSeq(items, 1, Len(items) - 1), k)

\* the pairs <<key, text>> for the sequence of keys
RECURSIVE SortedArgs(_, _)
SortedArgs(keys, items) ==
    IF keys = <<>> THEN <<>>
    ELSE <<<<Head(keys), Lookup(items, Head(keys))>>>> \o SortedArgs(Tail(keys), items)

\* normalize_function_call(name, args): the arguments sorted by name
normalize_function_call(name, items) ==
    CallStr(name,
            SortedArgs(Filter(KeyOrder, {items[i][1] : i \in 1..Len(items)}), items))

\* the items with each value as f"{value}" writes it
Formatted(items) == [i \in 1..Len(items) |-> <<items[i][1], Format(items[i][2])>>]

\* extract_tool_calls raises: args.keys() of arguments that are no mapping
\* (only json.JSONDecodeError is caught)
extract_tool_calls_raises(text) ==
    \E i \in 1..Len(text.blocks) :
        /\ text.blocks[i].kind = "call"
        /\ text.blocks[i].arguments.t \notin {"dict", "absent"}

\* extract_tool_calls(text): the normalized calls of the blocks that are JSON
\* with a name
RECURSIVE extract_blocks(_)
extract_blocks(blocks) ==
    IF blocks = <<>> THEN <<>>
    ELSE LET b == Head(blocks) IN
         (IF b.kind = "call"
          THEN <<normalize_function_call(
                    b.name,
                    IF b.arguments.t = "absent" THEN <<>>
                    ELSE Formatted(b.arguments.items))>>
          ELSE <<>>) \o extract_blocks(Tail(blocks))
extract_tool_calls(text) == extract_blocks(text.blocks)

\* parse_ground_truth raises: call.strip() of a list element that is no str
parse_ground_truth_raises(ground_truth) ==
    \E i \in 1..Len(ground_truth.calls) : ground_truth.calls[i].t # "str"

\* normalize_ground_truth_calls: a call the pattern matches is normalized, any
\* other text is kept as it is
normalize_ground_truth_calls(calls) ==
    [i \in 1..Len(calls) |->
        IF "name" \in DOMAIN calls[i]
        THEN normalize_function_call(calls[i].name, calls[i].items)
        ELSE calls[i]]

\* parse_ground_truth(ground_truth)
parse_ground_truth(ground_truth) == normalize_ground_truth_calls(ground_truth.calls)

\* the loop of _compute_trace_score: gt_idx after the solution calls
RECURSIVE MatchLoop(_, _, _)
MatchLoop(solution_calls, ground_truth_calls, gt_idx) ==
    IF solution_calls = <<>> THEN gt_idx
    ELSE MatchLoop(Tail(solution_calls), ground_truth_calls,
                   IF /\ gt_idx < Len(ground_truth_calls)
                      /\ Head(solution_calls) = ground_truth_calls[gt_idx + 1]
                   THEN gt_idx + 1 ELSE gt_idx)

compute_trace_score(solution, ground_truth) ==
    IF extract_tool_calls_raises(solution) THEN Raise("AttributeError")
    ELSE IF parse_ground_truth_raises(ground_truth) THEN Raise("AttributeError")
    ELSE LET solution_calls == extract_tool_calls(solution)
             ground_truth_calls == parse_ground_truth(ground_truth)
         IN IF solution_calls = <<>> THEN Ret(Zero)
            ELSE IF ground_truth_calls = <<>> THEN Ret(One)
            ELSE IF MatchLoop(solution_calls, ground_truth_calls, 0)
                      = Len(ground_truth_calls)
                 THEN Ret(One) ELSE Ret(Zero)

\* _compute_answer_score(solution, ground_truth): only a dict ground truth
\* is handled; for any other the function ends without a return statement
compute_answer_score(solution, ground_truth) ==
    IF ground_truth.t = "dict"
    THEN IF solution.t = "str" /\ json_loads_raises(solution) THEN Zero
         ELSE IF (IF solution.t = "str" THEN json_loads(solution) ELSE solution)
                   = ground_truth
              THEN One ELSE Zero
    ELSE None

\* 0.5 * trace_score + 0.5 * answer_score
Weighted(trace_score, answer_score) ==
    Float(trace_score.tenths \div 2 + answer_score.tenths \div 2)

\* the try block of compute_score up to the test before breakpoint(): the
\* value to return, or the exception raised
compute_score_try(o) ==
    LET trace == compute_trace_score(o.args, o.scenario) IN
    IF trace.kind = "raise" THEN trace
    ELSE IF o.extra = None THEN Raise("TypeError")
    ELSE IF "sol_final_config" \notin DOMAIN o.extra THEN Raise("KeyError")
    ELSE LET answer == compute_answer_score(o.extra.sol_final_config,
                                            o.extra.gts_final_config)
         IN IF answer = None THEN Raise("TypeError")
            ELSE Ret(Weighted(trace.val, answer))

\* _compute_trace_score called by itself
trace_score(t) ==
    /\ th[t].pc = "ts_start"
    /\ Done(t, th[t], compute_trace_score(th[t].op.args, th[t].op.scenario))
    /\ UNCHANGED <<cls_instance, managers, converter, clients,
                   class_to_path_mapping, log_info, tool_schemas, tools,
                   handles, tasks, obs, drivers, ncalls, log_file>>

\* compute_score: the scores are computed; an exception is logged and 0.0
\* returned; a score above 0 goes to breakpoint(); 0.0 is returned
compute_score_scores(t) ==
    /\ th[t].pc = "cs_try"
    /\ LET r == compute_score_try(th[t].op) IN
         IF r.kind = "raise" THEN Done(t, th[t], Ret(Zero))
         ELSE IF r.val.tenths > 0
         THEN /\ th' = [th EXCEPT ![t].pc = "cs_breakpoint", ![t].result = r.val]
              /\ UNCHANGED out
         ELSE Done(t, th[t], r)
    /\ UNCHANGED <<cls_instance, managers, converter, clients,
                   class_to_path_mapping, log_info, tool_schemas, tools,
                   handles, tasks, obs, drivers, ncalls, log_file>>

\* breakpoint(): the hook may return at once (PYTHONBREAKPOINT=0) or after a
\* continue, and the score is returned; the debugger may be quit, or meet the
\* end of its input, and its BdbQuit is caught and 0.0 returned; or the
\* debugger waits for a command that never comes, and this step is not taken
compute_score_breakpoint(t) ==
    /\ th[t].pc = "cs_breakpoint"
    /\ \E quit \in BOOLEAN :
         Done(t, th[t], IF quit THEN Ret(Zero) ELSE Ret(th[t].result))
    /\ UNCHANGED <<cls_instance, managers, converter, clients,
                   class_to_path_mapping, log_info, tool_schemas, tools,
                   handles, tasks, obs, drivers, ncalls, log_file>>

----------------------------------------------------------------------------
(* The server behind a client, and the call log *)

RemoteErrors == {"ToolError", "Exception"}

\* What the server of a handle may do with client.call_tool(tool_name, tool_args):
\* a load stores the scenario (or, unfaithfully, another one), a save echoes
\* what is stored (or text that is no JSON), and every call may be refused
\* (ToolError) or fail otherwise.
RemoteOutcomes(tool_name, tool_args, srv) ==
    {[server |-> srv, res |-> Exc(e)] : e \in RemoteErrors}
    \cup
    (CASE tool_name = LoadTool ->
            {[server |-> [srv EXCEPT !.state = s, !.loads = @ + 1],
              res |-> Ok(LoadedText)] :
                s \in {tool_args.scenario} \cup {Dict(x) : x \in Scenarios}}
       [] tool_name = SaveTool ->
            {[server |-> srv, res |-> Ok(json_dumps(srv.state))],
             [server |-> srv, res |-> Ok(Str(Garbage))]}
       [] OTHER -> {[server |-> srv, res |-> Ok(PlainText)]})

----------------------------------------------------------------------------
(* Steps of the coroutines on the event loop *)

\* the thread that runs a coroutine drives the client operations it awaits
Drives(task, what) == [by |-> task.runner, what |-> what]

\* the loop starts coroutines, and runs callbacks, in the order of their
\* submission
NextToStart(i) ==
    /\ i \in 1..Len(tasks)
    /\ tasks[i].pc = "queued"
    /\ \A j \in 1..(i - 1) : tasks[j].pc # "queued"

\* _call_tool_async: the prefix is stripped; async with client: begins
call_tool_async_start ==
    \E i \in 1..Len(tasks) :
      /\ LoopTurn
      /\ NextToStart(i)
      /\ tasks[i].kind = "call"
      /\ tasks' = [tasks EXCEPT ![i].tool = StripPrefix(@), ![i].pc = "entering"]
      /\ drivers' = drivers \cup {Drives(tasks[i], "call_tool")}
      /\ UNCHANGED <<cls_instance, managers, converter,
                     clients, class_to_path_mapping, log_info, tool_schemas,
                     tools, handles, th, out, obs, ncalls, log_file>>

\* the client is connected (or not); text arguments are parsed;
\* await client.call_tool(tool_name, tool_args) begins
call_tool_async_entered ==
    \E i \in 1..Len(tasks) :
      /\ LoopTurn
      /\ tasks[i].pc = "entering"
      /\ \E connected \in BOOLEAN :
           tasks' = [tasks EXCEPT ![i] =
              IF ~connected
              THEN [@ EXCEPT !.pc = "done", !.res = Exc("ConnectError")]
              ELSE IF @.args.t = "str" /\ json_loads_raises(@.args)
              THEN [@ EXCEPT !.pc = "exiting", !.res = Exc("JSONDecodeError")]
              ELSE IF @.args.t = "str"
              THEN [@ EXCEPT !.pc = "calling", !.args = json_loads(@)]
              ELSE [@ EXCEPT !.pc = "calling"]]
      /\ drivers' = drivers \cup {Drives(tasks[i], "call_tool")}
      /\ UNCHANGED <<cls_instance, managers, converter,
                     clients, class_to_path_mapping, log_info, tool_schemas,
                     tools, handles, th, out, obs, ncalls, log_file>>

\* the server answers the call
call_tool_async_respond ==
    \E i \in 1..Len(tasks) :
      /\ LoopTurn
      /\ tasks[i].pc = "calling"
      /\ \E o \in RemoteOutcomes(tasks[i].tool, tasks[i].args, handles[tasks[i].h]) :
           /\ handles' = [handles EXCEPT ![tasks[i].h] = o.server]
           /\ tasks' = [tasks EXCEPT ![i].pc = "exiting", ![i].res = o.res]
      /\ UNCHANGED <<cls_instance, managers, converter,
                     clients, class_to_path_mapping, log_info, tool_schemas,
                     tools, th, out, obs, drivers, ncalls, log_file>>

\* async with client: ends, and an exception leaves the coroutine; otherwise
\* self.add_log(...) begins: the list of the key is created if there is none
call_tool_async_exit ==
    \E i \in 1..Len(tasks) :
      /\ LoopTurn
      /\ tasks[i].pc = "exiting"
      /\ IF tasks[i].res.kind = "ok"
         THEN /\ tasks' = [tasks EXCEPT ![i].pc = "logging"]
              /\ log_info' = add_log_key(log_info, tasks[i].cid)
         ELSE /\ tasks' = [tasks EXCEPT ![i].pc = "done"]
              /\ UNCHANGED log_info
      /\ UNCHANGED <<cls_instance, managers, converter,
                     clients, class_to_path_mapping, tool_schemas, tools,
                     handles, th, out, obs, drivers, ncalls,
                     log_file>>

\* add_log: self.log_info[no_class_client_id].append(log), a KeyError if
\* self.log_info was replaced meanwhile; return result.content[0].text
call_tool_async_log ==
    \E i \in 1..Len(tasks) :
      /\ LoopRunning
      /\ tasks[i].pc = "logging"
      /\ IF NoClassClientId(tasks[i].cid) \in DOMAIN log_info
         THEN /\ log_info' = add_log_append(log_info, tasks[i].cid, tasks[i].tool,
                                            tasks[i].args, tasks[i].res.val)
              /\ tasks' = [tasks EXCEPT ![i].pc = "done"]
         ELSE /\ tasks' = [tasks EXCEPT ![i].pc = "done", ![i].res = Exc("KeyError")]
              /\ UNCHANGED log_info
      /\ UNCHANGED <<cls_instance, managers, converter,
                     clients, class_to_path_mapping, tool_schemas, tools,
                     handles, th, out, obs, drivers, ncalls,
                     log_file>>

\* for server_name, server in mcp_servers.items(): the path is recorded, a
\* temporary client is made, and async with tmp_client: begins
NextServer(task, k) ==
    [task EXCEPT !.k = k, !.pc = IF k > Len(task.args) THEN "done" ELSE "init_entering",
                 !.res = IF k > Len(task.args) THEN Ok(None) ELSE Pending]
Recorded(mapping, task, k) ==
    IF k > Len(task.args) THEN mapping
    ELSE [g \in DOMAIN mapping \cup {task.args[k]} |->
            IF g = task.args[k] THEN PathOf(g) ELSE mapping[g]]

\* init_config_async: self.tool_schemas = []; self.tools = {}; the first server
init_config_async_start ==
    \E i \in 1..Len(tasks) :
      /\ LoopTurn
      /\ NextToStart(i)
      /\ tasks[i].kind = "init"
      /\ tool_schemas' = <<>>
      /\ tools' = {}
      /\ class_to_path_mapping' = Recorded(class_to_path_mapping, tasks[i], 1)
      /\ tasks' = [tasks EXCEPT ![i] = NextServer(@, 1)]
      /\ drivers' = drivers \cup {Drives(tasks[i], "list_tools")}
      /\ UNCHANGED <<cls_instance, managers, converter,
                     clients, log_info, handles, th, out, obs, ncalls, log_file>>

\* the temporary client is connected (or not); await tmp_client.list_tools() begins
init_config_async_entered ==
    \E i \in 1..Len(tasks) :
      /\ LoopTurn
      /\ tasks[i].pc = "init_entering"
      /\ \E connected \in BOOLEAN :
           tasks' = [tasks EXCEPT ![i] =
              IF connected THEN [@ EXCEPT !.pc = "init_listing"]
              ELSE [@ EXCEPT !.pc = "done", !.res = Exc("ConnectError")]]
      /\ drivers' = drivers \cup {Drives(tasks[i], "list_tools")}
      /\ UNCHANGED <<cls_instance, managers, converter,
                     clients, class_to_path_mapping, log_info, tool_schemas,
                     tools, handles, th, out, obs, ncalls, log_file>>

\* the server lists its tools (or fails); each gets its schema; async with ends
init_config_async_listed ==
    \E i \in 1..Len(tasks) :
      /\ LoopTurn
      /\ tasks[i].pc = "init_listing"
      /\ \E listed \in BOOLEAN :
           IF listed
           THEN /\ tool_schemas' = tool_schemas \o ToolNames(tasks[i].args[tasks[i].k])
                /\ tools' = tools \cup Range(ToolNames(tasks[i].args[tasks[i].k]))
                /\ tasks' = [tasks EXCEPT ![i].pc = "init_exiting"]
           ELSE /\ tasks' = [tasks EXCEPT ![i].pc = "init_exiting", ![i].res = Exc("Exception")]
                /\ UNCHANGED <<tool_schemas, tools>>
      /\ UNCHANGED <<cls_instance, managers, converter,
                     clients, class_to_path_mapping, log_info, handles, th,
                     out, obs, drivers, ncalls, log_file>>

\* async with tmp_client: has ended; await tmp_client.close() begins
init_config_async_exited ==
    \E i \in 1..Len(tasks) :
      /\ LoopTurn
      /\ tasks[i].pc = "init_exiting"
      /\ IF tasks[i].res.kind = "exc"
         THEN tasks' = [tasks EXCEPT ![i].pc = "done"] /\ UNCHANGED drivers
         ELSE /\ tasks' = [tasks EXCEPT ![i].pc = "init_closing"]
              /\ drivers' = drivers \cup {Drives(tasks[i], "close")}
      /\ UNCHANGED <<cls_instance, managers, converter,
                     clients, class_to_path_mapping, log_info, tool_schemas,
                     tools, handles, th, out, obs, ncalls, log_file>>

\* close() has returned (or raised); the next server, or the end
init_config_async_closed ==
    \E i \in 1..Len(tasks) :
      /\ LoopTurn
      /\ tasks[i].pc = "init_closing"
      /\ \E closed \in BOOLEAN :
           IF closed
           THEN /\ class_to_path_mapping' =
                      Recorded(class_to_path_mapping, tasks[i], tasks[i].k + 1)
                /\ tasks' = [tasks EXCEPT ![i] = NextServer(@, @.k + 1)]
           ELSE /\ tasks' = [tasks EXCEPT ![i].pc = "done", ![i].res = Exc("Exception")]
                /\ UNCHANGED class_to_path_mapping
      /\ UNCHANGED <<cls_instance, managers, converter,
                     clients, log_info, tool_schemas, tools, handles, th, out,
                     obs, drivers, ncalls, log_file>>

\* close_client: client_info = self.clients.get(client_id); if client_info:
\* await client_info["client"].close() begins
close_client_start ==
    \E i \in 1..Len(tasks) :
      /\ LoopTurn
      /\ NextToStart(i)
      /\ tasks[i].kind = "close"
      /\ LET e == clients[tasks[i].cid] IN
           IF e = NoEntry
           THEN /\ tasks' = [tasks EXCEPT ![i].pc = "done", ![i].res = Ok(None)]
                /\ UNCHANGED <<handles, drivers, ncalls>>
           ELSE /\ tasks' = [tasks EXCEPT ![i].pc = "closing", ![i].h = e.client]
                /\ handles' = [handles EXCEPT ![e.client].rel = "closing"]
                /\ drivers' = drivers \cup {Drives(tasks[i], "close")}
      /\ UNCHANGED <<cls_instance, managers, converter,
                     clients, class_to_path_mapping, log_info, tool_schemas,
                     tools, th, out, obs, ncalls, log_file>>

\* close_client that deletes the entry at the end of the try block, after a
\* close() that returned, and has no finally clause
close_client_del_in_try ==
    \E i \in 1..Len(tasks) :
      /\ LoopTurn
      /\ tasks[i].pc = "closing"
      /\ \E released \in BOOLEAN :
           /\ handles' = [handles EXCEPT ![tasks[i].h] =
                            [@ EXCEPT !.rel = IF released THEN "closed" ELSE "failed",
                                      !.state = EmptyDict]]
           /\ IF ~released
              THEN /\ tasks' = [tasks EXCEPT ![i].pc = "done", ![i].res = Ok(None)]
                   /\ UNCHANGED clients
              ELSE IF clients[tasks[i].cid] = NoEntry
              THEN /\ tasks' = [tasks EXCEPT ![i].pc = "done", ![i].res = Ok(None)]
                   /\ UNCHANGED clients
              ELSE /\ tasks' = [tasks EXCEPT ![i].pc = "done", ![i].res = Ok(None)]
                   /\ clients' = [clients EXCEPT ![tasks[i].cid] = NoEntry]
      /\ UNCHANGED <<cls_instance, managers, converter,
                     class_to_path_mapping, log_info, tool_schemas, tools, th,
                     out, obs, drivers, ncalls, log_file>>

\* close_client without the except clause: finally deletes the entry and the
\* exception of close() leaves the coroutine
close_client_no_except ==
    \E i \in 1..Len(tasks) :
      /\ LoopTurn
      /\ tasks[i].pc = "closing"
      /\ \E released \in BOOLEAN :
           /\ handles' = [handles EXCEPT ![tasks[i].h] =
                            [@ EXCEPT !.rel = IF released THEN "closed" ELSE "failed",
                                      !.state = EmptyDict]]
           /\ tasks' = [tasks EXCEPT ![i].pc = "done",
                                     ![i].res = IF clients[tasks[i].cid] = NoEntry
                                                THEN Exc("KeyError")
                                                ELSE IF released THEN Ok(None)
                                                ELSE Exc("Exception")]
      /\ clients' = [clients EXCEPT ![tasks[i].cid] = NoEntry]
      /\ UNCHANGED <<cls_instance, managers, converter,
                     class_to_path_mapping, log_info, tool_schemas, tools, th,
                     out, obs, drivers, ncalls, log_file>>

\* close() has returned or raised (printed); finally: del self.clients[client_id]
close_client_finally ==
    \E i \in 1..Len(tasks) :
      /\ LoopTurn
      /\ tasks[i].pc = "closing"
      /\ \E released \in BOOLEAN :
           handles' = [handles EXCEPT ![tasks[i].h] =
                         [@ EXCEPT !.rel = IF released THEN "closed" ELSE "failed",
                                   !.state = EmptyDict]]
      /\ IF clients[tasks[i].cid] = NoEntry
         THEN /\ tasks' = [tasks EXCEPT ![i].pc = "done", ![i].res = Exc("KeyError")]
              /\ UNCHANGED clients
         ELSE /\ tasks' = [tasks EXCEPT ![i].pc = "done", ![i].res = Ok(None)]
              /\ clients' = [clients EXCEPT ![tasks[i].cid] = NoEntry]
      /\ UNCHANGED <<cls_instance, managers, converter,
                     class_to_path_mapping, log_info, tool_schemas, tools, th,
                     out, obs, drivers, ncalls, log_file>>

\* the callback self.loop.stop runs: run_forever() returns at the end of this
\* iteration, start_loop returns, and the loop thread ends
loop_stop ==
    \E i \in 1..Len(tasks) :
      /\ LoopTurn
      /\ NextToStart(i)
      /\ tasks[i].kind = "stop"
      /\ tasks' = [tasks EXCEPT ![i].pc = "done", ![i].res = Ok(None)]
      /\ UNCHANGED <<cls_instance, managers, converter,
                     clients, class_to_path_mapping, log_info, tool_schemas,
                     tools, handles, th, out, obs, drivers, ncalls, log_file>>

----------------------------------------------------------------------------

get_client_steps(t) ==
    \/ get_client_check(t)
    \/ get_client_read_client(t)
    \/ get_client_read_status(t)
    \/ get_client_new(t)
    \/ get_client_store(t)

load_scenario_steps(t) ==
    \/ load_scenario_submit(t)
    \/ load_scenario_wait(t)
    \/ save_scenario_submit(t)
    \/ save_scenario_wait(t)
    \/ set_status_get(t)
    \/ set_status_write(t)

call_tool_steps(t) ==
    \/ call_tool_submit(t)
    \/ call_tool_wait(t)

init_config_steps(t) ==
    \/ init_config_submit(t)
    \/ init_config_wait(t)

close_all_clients_steps(t) ==
    \/ close_all_clients_list(t)
    \/ close_all_clients_submit(t)
    \/ close_all_clients_wait(t)
    \/ close_all_clients_clear(t)

shutdown_steps(t) ==
    \/ shutdown_stop(t)
    \/ shutdown_join(t)

call_tool_async_steps ==
    \/ call_tool_async_start
    \/ call_tool_async_entered
    \/ call_tool_async_respond
    \/ call_tool_async_exit
    \/ call_tool_async_log

init_config_async_steps ==
    \/ init_config_async_start
    \/ init_config_async_entered
    \/ init_config_async_listed
    \/ init_config_async_exited
    \/ init_config_async_closed

close_client_steps ==
    \/ close_client_start
    \/ close_client_finally

\* Every call of the menu, from both threads
Next ==
    \/ \E t \in Threads :
         \/ Call(t, Menu)
         \/ get_client_steps(t)
         \/ load_scenario_steps(t)
         \/ call_tool_steps(t)
         \/ close_all_clients_steps(t)
    \/ call_tool_async_steps
    \/ close_client_steps

Spec == Init /\ [][Next]_vars

\* Configuration, plain tool calls and teardown: every kind of coroutine
NextBridge ==
    \/ \E t \in Threads :
         \/ Call(t, MenuBridge)
         \/ get_client_steps(t)
         \/ call_tool_steps(t)
         \/ init_config_steps(t)
         \/ close_all_clients_steps(t)
    \/ call_tool_async_steps
    \/ init_config_async_steps
    \/ close_client_steps

SpecBridge == Init /\ [][NextBridge]_vars

\* Scenario loading and teardown only
NextLoad ==
    \/ \E t \in Threads :
         \/ Call(t, MenuLoad)
         \/ get_client_steps(t)
         \/ load_scenario_steps(t)
         \/ close_all_clients_steps(t)
    \/ call_tool_async_steps
    \/ close_client_steps

SpecLoad == Init /\ [][NextLoad]_vars

\* Loads with and without a scenario
NextSkip ==
    \/ \E t \in Threads :
         \/ Call(t, MenuSkip)
         \/ get_client_steps(t)
         \/ load_scenario_submit(t)
         \/ load_scenario_wait(t)
         \/ set_status_get(t)
         \/ set_status_write(t)
    \/ call_tool_async_steps

SpecSkip == Init /\ [][NextSkip]_vars

\* Teardown of sessions that exist, next to calls that create them
NextClose ==
    \/ \E t \in Threads :
         \/ Call(t, MenuClose)
         \/ get_client_steps(t)
         \/ close_all_clients_steps(t)
    \/ close_client_steps

SpecClose == InitClose /\ [][NextClose]_vars

\* Tool calls and loads made through call_tool, on two sessions
NextCalls ==
    \/ \E t \in Threads :
         \/ Call(t, MenuCalls)
         \/ get_client_steps(t)
         \/ load_scenario_submit(t)
         \/ load_scenario_wait(t)
         \/ set_status_get(t)
         \/ set_status_write(t)
         \/ call_tool_steps(t)
    \/ call_tool_async_steps

SpecCalls == Init /\ [][NextCalls]_vars

\* Shutdown of a manager that has sessions, next to tool calls
set_status_steps(t) == set_status_get(t) \/ set_status_write(t)

dump_log_steps(t) == dump_log_open(t) \/ dump_log_next(t)

NextLog ==
    \/ \E t \in Threads :
         \/ Call(t, MenuLog)
         \/ get_client_steps(t)
         \/ call_tool_steps(t)
         \/ close_all_clients_steps(t)
         \/ dump_log_steps(t)
    \/ call_tool_async_steps
    \/ close_client_steps

SpecLog == InitLog /\ [][NextLog]_vars

\* the thread that calls in a program with one caller
Caller == CHOOSE t \in Threads : TRUE

\* One caller thread makes the operations one after the other, next to the
\* loop thread
NextEvery ==
    \/ Call(Caller, MenuEvery)
    \/ \E t \in Threads :
         \/ get_client_steps(t)
         \/ load_scenario_steps(t)
         \/ call_tool_steps(t)
         \/ init_config_steps(t)
         \/ close_all_clients_steps(t)
         \/ dump_log_steps(t)
         \/ shutdown_steps(t)
    \/ call_tool_async_steps
    \/ init_config_async_steps
    \/ close_client_steps
    \/ loop_stop

SpecEvery == InitLog /\ [][NextEvery]_vars

NextExecute ==
    \/ \E t \in Threads :
         \/ Call(t, MenuExecute)
         \/ execute_tool_lookup(t)
         \/ get_client_steps(t)
         \/ load_scenario_submit(t)
         \/ load_scenario_wait(t)
         \/ set_status_steps(t)
         \/ call_tool_steps(t)
    \/ call_tool_async_steps

SpecExecute == Init /\ [][NextExecute]_vars

NextDashed ==
    \/ \E t \in Threads :
         \/ Call(t, MenuDashed)
         \/ get_client_steps(t)
         \/ call_tool_steps(t)
    \/ call_tool_async_steps

SpecDashed == Init /\ [][NextDashed]_vars

NextRound ==
    \/ \E t \in Threads :
         \/ Call(t, MenuRound)
         \/ get_client_steps(t)
         \/ load_scenario_submit(t)
         \/ load_scenario_wait(t)
         \/ set_status_steps(t)
         \/ call_tool_steps(t)
    \/ call_tool_async_steps

SpecRound == Init /\ [][NextRound]_vars

NextStatus ==
    \/ \E t \in Threads :
         \/ Call(t, MenuStatus)
         \/ set_status_steps(t)
         \/ close_all_clients_steps(t)
    \/ close_client_steps

SpecStatus == InitClose /\ [][NextStatus]_vars

NextShutdown ==
    \/ \E t \in Threads :
         \/ Call(t, MenuShutdown)
         \/ get_client_steps(t)
         \/ call_tool_steps(t)
         \/ close_all_clients_steps(t)
         \/ shutdown_steps(t)
    \/ call_tool_async_steps
    \/ close_client_steps
    \/ loop_stop

SpecShutdown == InitClose /\ [][NextShutdown]_vars

\* A thread shuts the manager down, and it or the other goes on calling
NextStopped ==
    \/ \E t \in Threads :
         \/ Call(t, MenuStopped)
         \/ get_client_steps(t)
         \/ load_scenario_submit(t)
         \/ load_scenario_wait(t)
         \/ set_status_get(t)
         \/ set_status_write(t)
         \/ call_tool_steps(t)
         \/ init_config_steps(t)
         \/ close_all_clients_steps(t)
         \/ shutdown_steps(t)
    \/ call_tool_async_steps
    \/ init_config_async_steps
    \/ close_client_steps
    \/ loop_stop

SpecStopped == Init /\ [][NextStopped]_vars

simulate_steps(t) ==
    \/ simulate_start(t)
    \/ simulate_reset(t)
    \/ simulate_load_class(t)
    \/ simulate_loaded(t)
    \/ simulate_test(t)
    \/ simulate_turn(t)
    \/ simulate_save(t)
    \/ simulate_action(t)
    \/ simulate_cleanup(t)
    \/ simulate_clear(t)

\* One thread runs simulate_multi_turn_execution on its converter, once or
\* again, next to the loop thread
NextSimulate ==
    \/ Call(Caller, MenuSimulate)
    \/ \E t \in Threads :
         \/ simulate_steps(t)
         \/ execute_tool_lookup(t)
         \/ get_client_steps(t)
         \/ load_scenario_submit(t)
         \/ load_scenario_wait(t)
         \/ set_status_steps(t)
         \/ call_tool_steps(t)
         \/ close_all_clients_steps(t)
    \/ call_tool_async_steps
    \/ close_client_steps

SpecSimulate == InitSimulate /\ [][NextSimulate]_vars

\* One thread computes scores, one after the other
NextScore ==
    \/ Call(Caller, MenuScore)
    \/ \E t \in Threads :
         \/ trace_score(t)
         \/ compute_score_scores(t)
         \/ compute_score_breakpoint(t)

SpecScore == Init /\ [][NextScore]_vars

construct_steps(t) ==
    \/ new_check(t)
    \/ new_create(t)
    \/ new_store(t)
    \/ new_return(t)
    \/ init_check(t)
    \/ init_clients(t)
    \/ init_mapping(t)
    \/ init_log(t)
    \/ init_loop(t)
    \/ init_thread(t)
    \/ init_start(t)

\* Threads construct the manager, directly or through their converters
NextConstruct ==
    \E t \in Threads :
        \/ Call(t, MenuConstruct)
        \/ create_client_manager_check(t)
        \/ construct_steps(t)
        \/ create_client_manager_init_config(t)

SpecConstruct == InitConstruct /\ [][NextConstruct]_vars

\* Sessions of a group that is configured late, or never
NextCatalog ==
    \/ \E t \in Threads :
         \/ Call(t, MenuCatalog)
         \/ get_client_steps(t)
         \/ load_scenario_submit(t)
         \/ load_scenario_wait(t)
         \/ set_status_get(t)
         \/ set_status_write(t)
         \/ call_tool_steps(t)
         \/ init_config_steps(t)
    \/ call_tool_async_steps
    \/ init_config_async_steps

SpecCatalog == Init /\ [][NextCatalog]_vars

----------------------------------------------------------------------------
(* Properties *)

HandleIds == 1..Len(handles)
HandlesOf(c) == {h \in HandleIds : handles[h].cid = c}
Registered(h) ==
    clients[handles[h].cid] # NoEntry /\ clients[handles[h].cid].client = h
Ready(cl, c) == cl[c] # NoEntry /\ cl[c].status

\* a coroutine is inside "async with client:" on handle h
InUse(h) ==
    \E i \in 1..Len(tasks) :
        /\ tasks[i].kind = "call"
        /\ tasks[i].h = h
        /\ tasks[i].pc \in {"entering", "calling", "exiting"}

\* constructed and not yet released, or in use by a call in flight
Live(h) == handles[h].rel = "live" \/ InUse(h)

\* thread t is past get_client and holds the client it returned
Holds(t) ==
    th[t].pc \in {"ls_submit", "ls_wait", "ct_submit", "ct_wait", "sv_submit",
                  "sv_wait", "ss_get", "ss_write"}

\* C1: while no client has been closed, concurrent get_client calls for an id
\* without an entry construct one handle for it, and every caller holds the
\* registered handle.
C1_OneHandlePerConcurrentCreate ==
    (\A h \in HandleIds : handles[h].rel = "live") =>
        /\ \A c \in ClientIds : Cardinality(HandlesOf(c)) <= 1
        /\ \A t \in Threads : Holds(t) => Registered(th[t].client)

\* C2: in every state each session id has at most one live handle, and it is
\* the registered one (or the one get_client is about to register).
C2_OneLiveHandlePerSession ==
    \A c \in ClientIds :
        LET live == {h \in HandlesOf(c) : Live(h)} IN
        /\ Cardinality(live) <= 1
        /\ \A h \in live :
             \/ Registered(h)
             \/ \E t \in Threads : th[t].pc = "gc_store" /\ th[t].client = h

\* C3: once the release of a client has begun, the registry no longer holds
\* it, so no lookup can return it.
C3_RemovedBeforeRelease ==
    \A c \in ClientIds :
        clients[c] # NoEntry => handles[clients[c].client].rel = "live"

\* C4: every client operation (listing tools, calling a tool, closing a
\* client) is driven by the event-loop thread, never by a caller thread.
C4_OnlyLoopDrivesClients == \A d \in drivers : d.by = LoopThread

C4_Witness ==
    /\ [by |-> LoopThread, what |-> "call_tool"] \in drivers
    /\ [by |-> LoopThread, what |-> "close"] \in drivers
    /\ \E c \in ClientIds : clients[c] = NoEntry /\ HandlesOf(c) # {}

\* C5: no two remote calls on the same client handle are in flight together.
C5_OneCallInFlightPerHandle ==
    \A i, j \in 1..Len(tasks) :
        (i # j /\ tasks[i].kind = "call" /\ tasks[j].kind = "call"
              /\ tasks[i].h = tasks[j].h)
        => ~(tasks[i].pc = "calling" /\ tasks[j].pc = "calling")

\* the server has answered the call of a coroutine
Answered(k) == tasks[k].pc \in {"exiting", "logging", "done"} /\ tasks[k].res.kind = "ok"

\* C6: calls on one session take effect and complete in the order of their
\* submission: no call is answered while a call submitted before it on the
\* same session is still waiting for its answer.
C6_AnsweredInSubmissionOrder ==
    \A i, j \in 1..Len(tasks) :
        (i < j /\ tasks[i].kind = "call" /\ tasks[j].kind = "call"
               /\ tasks[i].cid = tasks[j].cid /\ Answered(j))
        => tasks[i].pc # "calling"

\* C7: the server of a session's client takes at most one successful load.
C7_LoadedAtMostOnce == \A h \in HandleIds : handles[h].loads <= 1

\* C8: a load_scenario call that finds the session ready returns the
\* "already initialized" text at once, having submitted nothing, and no step
\* of it changes the registry, the call log, the servers or the loop's work.
C8_ReadySessionIsSkipped ==
    [][\A t \in Threads :
         /\ (obs[t].seen = "unset" /\ obs'[t].seen = "ready")
            => /\ th'[t].pc = "idle"
               /\ out'[t] = Ret(AlreadyText)
               /\ obs'[t].issued = 0
         /\ (/\ th'[t] # th[t]
             /\ th[t].cont = "ls"
             /\ th[t].pc \in {"gc_check", "gc_client", "gc_status"}
             /\ th'[t].pc \in {"gc_client", "gc_status", "idle"})
            => UNCHANGED <<clients, log_info, handles, tasks>>]_vars

C8_Witness ==
    \E t \in Threads, c \in ClientIds :
        /\ th[t].pc = "idle"
        /\ obs[t].seen = "ready"
        /\ out[t] = Ret(AlreadyText)
        /\ obs[t].op.cid = c
        /\ Ready(clients, c)
        /\ handles[clients[c].client].state # obs[t].op.scenario

\* the save echoed exactly the scenario of the call
EchoMatches(o) == o.echo = json_dumps(o.op.scenario)

C9_Call(t) ==
    LET o == obs[t] IN
    o.op.check =>
        /\ o.mark = "marked" => EchoMatches(o)
        /\ (o.echo # Pending /\ ~EchoMatches(o))
           => /\ o.mark = "unset"
              /\ th[t].pc = "idle"
              /\ out[t] = Ret(LoadedText)
        /\ (EchoMatches(o) /\ th[t].pc = "idle")
           => o.mark # "unset" /\ out[t] = Ret(LoadedText)

C9_Mark ==
    \A c \in ClientIds :
        (Ready(clients', c) /\ ~Ready(clients, c))
        => \E t \in Threads :
              /\ obs[t].mark = "unset"
              /\ obs'[t].mark = "marked"
              /\ obs[t].op.check => EchoMatches(obs[t])

\* C9: a load_scenario(check=True) call sets the ready flag exactly when the
\* save it reads back echoes the scenario; when the echo differs, is no JSON,
\* or the save call failed, it sets nothing and returns without raising; and
\* the flag of a session turns true only in such a step.
C9_ReadyIffEchoMatches ==
    [](\A t \in Threads : C9_Call(t)) /\ [][C9_Mark]_vars

C9_Witness ==
    \E t, u \in Threads :
        /\ obs[t].op.check /\ obs[t].mark = "marked"
        /\ obs[u].op.check /\ obs[u].echo = Str(Garbage)
        /\ th[u].pc = "idle" /\ out[u].kind = "ret"
        /\ \E c \in ClientIds : Ready(clients, c)

\* C10: a check that failed is told to the caller: load_scenario's value
\* differs from the value of a load whose check succeeded.
C10_MismatchIsReported ==
    \A t, u \in Threads :
        (/\ th[t].pc = "idle" /\ out[t].kind = "ret"
         /\ obs[t].op.check /\ obs[t].mark = "marked"
         /\ th[u].pc = "idle" /\ out[u].kind = "ret"
         /\ obs[u].op.check /\ obs[u].echo # Pending /\ ~EchoMatches(obs[u]))
        => out[t].val # out[u].val

\* the call is a load: load_scenario, or call_tool with a load tool name
LoadCall(o) == o.name = "load_scenario" \/ (o.name = "call_tool" /\ IsLoadName(o.tool))

\* no other thread has made a call
Alone(t) == \A u \in Threads \ {t} : obs[u].op = NoOp

\* one client was constructed for the session, and its release has not begun:
\* the entry that get_client stored has been neither deleted nor overwritten
SameEntry(c) ==
    Cardinality(HandlesOf(c)) = 1 /\ \A h \in HandlesOf(c) : handles[h].rel = "live"

\* C11: a load_scenario call with check=False never submits a save_scenario
\* call; once its remote load has succeeded it goes on to set_status, which
\* marks the session's entry ready (or finds that the session was closed
\* meanwhile), and it returns the result of the load.
C11_NoCheckMarksReady ==
    \A t \in Threads :
        LET o == obs[t] IN
        (LoadCall(o.op) /\ ~o.op.check) =>
            /\ o.issued <= 1
            /\ o.echo = Pending
            /\ th[t].pc \notin {"sv_submit", "sv_wait"}
            /\ (th[t].pc = "idle" /\ out[t] = Ret(LoadedText))
               => o.mark \in {"marked", "absent"}
            /\ (o.mark = "marked" /\ SameEntry(o.op.cid))
               => Ready(clients, o.op.cid)
            /\ o.mark = "marked" => o.issued = 1

C11_Witness ==
    \E t \in Threads :
        /\ LoadCall(obs[t].op) /\ ~obs[t].op.check
        /\ th[t].pc = "idle" /\ out[t] = Ret(LoadedText)
        /\ obs[t].mark = "marked" /\ obs[t].issued = 1
        /\ Ready(clients, obs[t].op.cid)

\* the remote load of the thread's last call failed, and load_scenario raised
LoadFailed(t) ==
    /\ th[t].pc = "idle"
    /\ LoadCall(obs[t].op)
    /\ out[t].kind = "raise"
    /\ out[t].exc # "KeyError"

\* C12: a load_scenario call that submitted its remote load returns only the
\* result of a load that succeeded, and raises otherwise; after a failed load
\* (no other thread calling) the session is registered and not ready; and the
\* same call made again is not skipped: it submits the remote load.
C12_FailedLoadRaisesAndRetries ==
    \A t \in Threads :
        LET o == obs[t] IN
        LoadCall(o.op) =>
            /\ (th[t].pc = "idle" /\ o.issued >= 1)
               => (out[t] = Ret(LoadedText) \/ out[t].kind = "raise")
            /\ (th[t].pc = "idle" /\ out[t].kind = "raise") => o.mark # "marked"
            /\ (LoadFailed(t) /\ Alone(t))
               => /\ clients[o.op.cid] # NoEntry
                  /\ ~clients[o.op.cid].status
            /\ (o.prev = o.op /\ Alone(t))
               => /\ o.seen # "ready"
                  /\ th[t].pc = "idle" => (o.issued >= 1 /\ out[t] # Ret(AlreadyText))

C12_Witness ==
    \E t \in Threads :
        /\ LoadCall(obs[t].op) /\ obs[t].prev = obs[t].op /\ Alone(t)
        /\ th[t].pc = "idle" /\ obs[t].issued >= 1
        /\ out[t] = Ret(LoadedText)
        /\ Ready(clients, obs[t].op.cid)

\* the group of a session id is a key of the catalog
Configured(c) == ToolClass(c) \in DOMAIN class_to_path_mapping

\* C13: get_client, load_scenario and call_tool on a session id whose group is
\* not in the catalog raise (KeyError) without submitting anything, no client
\* is constructed for such an id, and the group of every registry entry is a
\* key of the catalog.
C13_UnknownGroupFails ==
    /\ \A c \in DOMAIN clients : clients[c] # NoEntry => Configured(c)
    /\ \A h \in HandleIds : Configured(handles[h].cid)
    /\ \A t \in Threads :
         (/\ th[t].pc = "idle"
          /\ obs[t].op.name \in {"get_client", "load_scenario", "call_tool"}
          /\ ~Configured(obs[t].op.cid))
         => /\ out[t] = Raise("KeyError")
            /\ obs[t].issued = 0

C13_Witness ==
    \E t, u \in Threads :
        /\ th[t].pc = "idle" /\ obs[t].op.name = "call_tool"
        /\ th[u].pc = "idle" /\ obs[u].op.name = "load_scenario"
        /\ obs[t].op.cid = UnknownId /\ obs[u].op.cid = UnknownId
        /\ ~Configured(UnknownId)
        /\ out[t] = Raise("KeyError") /\ out[u] = Raise("KeyError")
        /\ clients[UnknownId] = NoEntry

\* close_all_clients has returned to thread t, and no other thread has made
\* a call
ClosedAll(t) ==
    /\ th[t].pc = "idle"
    /\ obs[t].op = OpCloseAll
    /\ out[t] = Ret(None)
    /\ Alone(t)

\* C14: when close_all_clients has returned, and no other thread is calling,
\* the registry has no entry, however many sessions there were and whichever
\* of their clients failed to close.
C14_CloseAllEmptiesRegistry ==
    \A t \in Threads :
        ClosedAll(t) => \A c \in DOMAIN clients : clients[c] = NoEntry

C14_Witness ==
    \E t \in Threads :
        /\ ClosedAll(t)
        /\ \A c \in DOMAIN clients : clients[c] = NoEntry
        /\ \E g, h \in HandleIds :
              /\ handles[g].cid # handles[h].cid
              /\ handles[g].rel = "failed"
              /\ handles[h].rel = "closed"

\* C15: a client whose close() has returned or raised is not in the registry,
\* then or later; and a close() that raised does not make close_client raise:
\* the coroutine ends normally, or, when other threads are calling too, with
\* the KeyError of a del that found the entry deleted already.
C15_FailedReleaseStaysRemoved ==
    /\ \A c \in DOMAIN clients :
         clients[c] # NoEntry
         => handles[clients[c].client].rel \notin {"closed", "failed"}
    /\ \A i \in 1..Len(tasks) :
         (tasks[i].kind = "close" /\ tasks[i].pc = "done")
         => /\ tasks[i].res \in {Ok(None), Exc("KeyError")}
            /\ Alone(tasks[i].owner) => tasks[i].res = Ok(None)

C15_Witness ==
    \E h \in HandleIds, i \in 1..Len(tasks) :
        /\ handles[h].rel = "failed"
        /\ tasks[i].kind = "close" /\ tasks[i].h = h
        /\ tasks[i].pc = "done" /\ tasks[i].res = Ok(None)
        /\ clients[handles[h].cid] # NoEntry
        /\ clients[handles[h].cid].client # h

\* the positions at which a caller waits in future.result() (close_all_clients
\* submits all its coroutines before it waits)
Waiting == {"ls_wait", "sv_wait", "ct_wait", "ic_wait", "ca_submit", "ca_wait"}

\* a step of some coroutine on the event loop
LoopStep == call_tool_async_steps \/ close_client_steps \/ init_config_async_steps

\* C16: a caller stays in future.result() until the coroutine it submitted
\* has ended with a result or an exception: every coroutine that is submitted
\* and not yet collected belongs to a waiting caller, and a waiting caller of
\* call_tool or load_scenario leaves only by collecting a finished coroutine;
\* and whenever a coroutine has not ended, the loop can take a step, whoever
\* is blocked.
C16_CallerBlocksLoopRuns ==
    /\ \A i \in 1..Len(tasks) : th[tasks[i].owner].pc \in Waiting
    /\ \A t \in Threads :
         th[t].pc \in {"ls_wait", "sv_wait", "ct_wait"}
         => Cardinality({i \in 1..Len(tasks) : tasks[i].owner = t}) = 1
    /\ (\E i \in 1..Len(tasks) : tasks[i].pc # "done") => ENABLED LoopStep

C16_Witness ==
    \E t, u \in Threads, i, j \in 1..Len(tasks) :
        /\ t # u /\ i < j
        /\ th[t].pc = "ct_wait" /\ tasks[i].owner = t /\ tasks[i].pc = "calling"
        /\ th[u].pc = "ls_wait" /\ tasks[j].owner = u /\ tasks[j].pc = "done"
        /\ tasks[j].res.kind = "ok"

\* the call is a tool call that call_tool submits itself
PlainCall(o) == o.name = "call_tool" /\ ~IsLoadName(o.tool)

\* C17: call_tool's outcome for a call that the server rejected (ToolError)
\* differs from its outcome for a call that failed in another way.
C17_RejectionIsDistinguished ==
    \A t, u \in Threads :
        (/\ th[t].pc = "idle" /\ PlainCall(obs[t].op)
         /\ th[u].pc = "idle" /\ PlainCall(obs[u].op)
         /\ obs[t].caught = "ToolError"
         /\ obs[u].caught \notin {"none", "ToolError"})
        => out[t] # out[u]

\* C18: call_tool with text arguments that do not parse delivers a failure to
\* its caller, the server's tool is not invoked and no record is logged.
C18_MalformedArgumentsFail ==
    \A t \in Threads :
        (/\ th[t].pc = "idle" /\ PlainCall(obs[t].op)
         /\ obs[t].op.args = MalformedText
         /\ obs[t].caught = "JSONDecodeError")
        => /\ out[t].kind = "raise"
           /\ log_info = <<>>
           /\ \A h \in HandleIds : handles[h] = NewClient(handles[h].cid)

\* C19: call_tool never submits a coroutine of its own for a load tool name,
\* and no remote load is in flight on a session whose ready flag is true.
C19_NoLoadOnReadySession ==
    /\ \A t \in Threads :
         th[t].pc \in {"ct_submit", "ct_wait"} => ~IsLoadName(th[t].op.tool)
    /\ \A i \in 1..Len(tasks) :
         (tasks[i].kind = "call" /\ tasks[i].tool = LoadTool
            /\ tasks[i].pc = "calling")
         => ~Ready(clients, tasks[i].cid)

\* the step ends a call of thread t in a failure: call_tool has caught the
\* exception of its coroutine
FailsIn(t) == th[t].pc = "ct_wait" /\ th'[t].pc = "idle" /\ obs'[t].caught # "none"

\* C20: the step in which a call fails changes no registry entry; an entry
\* changes only in a step of a call made on that very session (get_client
\* storing it, set_status marking it); and with a failure behind it the loop
\* still takes a step whenever a coroutine has not ended.
C20_FailureTouchesNothingElse ==
    /\ [][/\ (\E t \in Threads : FailsIn(t)) => UNCHANGED <<clients, handles>>
          /\ \A c \in DOMAIN clients :
               clients'[c] # clients[c]
               => \E t \in Threads :
                     /\ th[t].op.name # "none" /\ th[t].op.cid = c
                     /\ th[t].pc \in {"gc_store", "ss_write"}
                     /\ th'[t] # th[t]]_vars
    /\ []((/\ \E t \in Threads : obs[t].caught # "none" \/ obs[t].prev # NoOp
           /\ \E i \in 1..Len(tasks) : tasks[i].pc # "done")
          => ENABLED call_tool_async_steps)

C20_Witness ==
    \E t \in Threads :
        /\ PlainCall(obs[t].prev) /\ obs[t].prev.cid # SecondId
        /\ obs[t].op.cid = SecondId
        /\ th[t].pc = "idle" /\ out[t] = Ret(LoadedText)
        /\ Ready(clients, SecondId)
        /\ \E c \in ClientIds : clients[c] # NoEntry /\ ~clients[c].status

\* the current shutdown of thread t has handed loop.stop to the loop
AskedToStop(t) == obs[t].op = OpShutdown /\ obs[t].mark \in {"asked", "joined", "warned"}

\* C21: a shutdown asks the loop to stop only after all the close_client
\* coroutines it submitted have ended and been collected (with no other
\* thread calling, the registry is then empty, whichever close() failed); it
\* joins the loop thread only after it has asked the loop to stop; and it
\* returns None both when the thread has ended and when it is still alive
\* after the timeout, which it only reports.
C21_ShutdownOrder ==
    \A t \in Threads :
        obs[t].op = OpShutdown =>
            /\ AskedToStop(t)
               => /\ th[t].pc \in {"sd_join", "idle"}
                  /\ \A i \in 1..Len(tasks) : ~MyClose(t, tasks[i])
                  /\ \E i \in 1..Len(tasks) :
                        tasks[i].kind = "stop" /\ tasks[i].owner = t
                  /\ Alone(t) => \A c \in DOMAIN clients : clients[c] = NoEntry
            /\ th[t].pc \in {"sd_join", "idle"} => AskedToStop(t)
            /\ th[t].pc = "sd_join" => obs[t].mark = "asked"
            /\ th[t].pc = "idle"
               => /\ out[t] = Ret(None)
                  /\ obs[t].mark \in {"joined", "warned"}
            /\ obs[t].mark = "joined" => ~LoopRunning

C21_Witness ==
    \E t \in Threads :
        /\ obs[t].op = OpShutdown /\ Alone(t)
        /\ th[t].pc = "idle" /\ out[t] = Ret(None)
        /\ obs[t].mark = "warned" /\ LoopRunning
        /\ \E g, h \in HandleIds :
              handles[g].rel = "failed" /\ handles[h].rel = "closed"

\* C22: the ready flag of a session never goes from true to false while the
\* session's entry exists: a step from a registry with a ready entry for a
\* session to a registry with an entry for it leaves that entry ready.
C22_ReadyNeverReset ==
    [][\A c \in DOMAIN clients :
          (Ready(clients, c) /\ clients'[c] # NoEntry) => clients'[c].status]_vars

\* a step of set_status made by thread t
SetStatusStep(t) == th[t].pc \in {"ss_get", "ss_write"} /\ th'[t] # th[t]

\* C23: set_status on an id without an entry returns None and changes
\* nothing; on an entry that is already ready it leaves the registry as it
\* is; in every case it touches no other entry, constructs and submits
\* nothing, keeps the entry's client and leaves the entry ready if there is
\* one; and it raises only when the entry it found was deleted before it
\* wrote the flag.
C23_SetStatusIdempotent ==
    /\ [](\A t \in Threads :
            (th[t].pc = "idle" /\ obs[t].op.name = "set_status")
            => /\ obs[t].mark \in {"absent", "marked", "keyerror"}
               /\ obs[t].mark \in {"absent", "marked"} => out[t] = Ret(None)
               /\ obs[t].mark = "marked" => obs[t].issued = 0)
    /\ [][\A t \in Threads :
            SetStatusStep(t) =>
              LET cid == th[t].op.cid IN
                /\ handles' = handles /\ tasks' = tasks /\ log_info' = log_info
                /\ \A c \in DOMAIN clients \ {cid} : clients'[c] = clients[c]
                /\ (th[t].pc = "ss_get" /\ clients[cid] = NoEntry)
                   => clients' = clients /\ th'[t].pc = "idle" /\ out'[t] = Ret(None)
                /\ Ready(clients, cid) => clients' = clients
                /\ clients'[cid] # NoEntry
                   => /\ clients[cid] # NoEntry
                      /\ clients'[cid].client = clients[cid].client
                      /\ th[t].pc = "ss_write" => clients'[cid].status]_vars

C23_Witness ==
    \E c \in ClientIds, d \in SessionIds :
        /\ \A t \in Threads :
              /\ th[t].pc = "idle" /\ out[t] = Ret(None)
              /\ obs[t].op = OpSetStatus(c) /\ obs[t].mark = "marked"
        /\ Ready(clients, c)
        /\ d # c /\ clients[d] # NoEntry /\ ~clients[d].status

\* thread t has loaded scenario S on session c without the read-back, thread u
\* has then called the save tool on c through call_tool with no exception in
\* its coroutine, and the server behind the one client of c was faithful: the
\* log of c holds the load and then the save, the server holds the scenario the load gave it, and the save
\* answered with the serialization of what the server holds
RoundTrip(t, u, c) ==
    /\ t # u
    /\ th[t].pc = "idle" /\ th[u].pc = "idle"
    /\ obs[t].op.name = "load_scenario" /\ obs[t].op.cid = c /\ ~obs[t].op.check
    /\ obs[t].mark = "marked"
    /\ obs[u].op = OpCallTool(SaveTool, EmptyDict, c) /\ obs[u].caught = "none"
    /\ HandlesOf(c) # {} /\ \A g, h \in HandlesOf(c) : g = h
    /\ NoClassClientId(c) \in DOMAIN log_info
    /\ LET log == log_info[NoClassClientId(c)] IN
         /\ Len(log) = 2
         /\ log[1].tool_name = LoadTool /\ log[2].tool_name = SaveTool
         /\ \A h \in HandlesOf(c) :
               /\ handles[h].state = log[1].tool_args.scenario
               /\ log[2].tool_result = json_dumps(handles[h].state)

\* C24 as stated: the save that follows the load returns a value equal to the
\* scenario S itself.
C24_RoundTripReturnsScenario ==
    \A t, u \in Threads, c \in ClientIds :
        RoundTrip(t, u, c) => out[u] = Ret(obs[t].op.scenario)

\* C24, amended: the save that follows the load returns the text that
\* json.loads turns into a value equal to S.
C24_RoundTripReturnsText ==
    \A t, u \in Threads, c \in ClientIds :
        RoundTrip(t, u, c)
        => /\ out[u].kind = "ret"
           /\ ~json_loads_raises(out[u].val)
           /\ json_loads(out[u].val) = obs[t].op.scenario

C24_Witness ==
    \E t, u \in Threads, c \in ClientIds :
        /\ RoundTrip(t, u, c)
        /\ obs[t].op.scenario = Dict("S2")
        /\ out[u] = Ret(Str(Dict("S2")))

\* the id with its group prefix stripped: what follows the first '-'
WithoutGroup(client_id) == Tail(client_id)

\* C25: when a tool call on a session has succeeded, with no other thread
\* calling, the log has a key that is the session id without its group prefix.
C25_LogKeyIsIdWithoutGroup ==
    \A t \in Threads :
        (/\ th[t].pc = "idle" /\ PlainCall(obs[t].op) /\ Alone(t)
         /\ obs[t].caught = "none" /\ out[t] = Ret(PlainText))
        => \E k \in DOMAIN log_info : <<k>> = WithoutGroup(obs[t].op.cid)

\* every identifier of old is in new, with its entries as the first of new's
Extends(old, new) ==
    /\ DOMAIN old \subseteq DOMAIN new
    /\ \A k \in DOMAIN old :
          Len(new[k]) >= Len(old[k]) /\ SubSeq(new[k], 1, Len(old[k])) = old[k]

\* the step is the clear of a close_all_clients
ClearStep == \E t \in Threads : th[t].pc = "ca_clear" /\ th'[t].pc # "ca_clear"

\* the step is one of add_log, made by a coroutine for a call on client_id
AddLogStep(client_id) ==
    \E i \in 1..Len(tasks) :
        /\ tasks[i].cid = client_id
        /\ tasks[i].pc \in {"exiting", "logging"}
        /\ tasks'[i].pc # tasks[i].pc

\* C26: a step that is not the clear of close_all_clients keeps every
\* identifier of the log and every entry at its place; a step that changes the
\* log, and is not the clear, is a step of add_log, which leaves the lists of
\* the other identifiers as they are and puts at most one entry at the end of
\* the list of its de-scoped identifier: the entry of the call, when the log
\* still has the identifier.
C26_LogAppendOnly ==
    [][/\ ~ClearStep => Extends(log_info, log_info')
       /\ ClearStep => log_info' = <<>>
       /\ (log_info' # log_info /\ ~ClearStep)
          => \E c \in SessionIds :
                LET k == NoClassClientId(c) IN
                  /\ AddLogStep(c)
                  /\ DOMAIN log_info' = DOMAIN log_info \cup {k}
                  /\ \A j \in DOMAIN log_info \ {k} : log_info'[j] = log_info[j]
                  /\ Len(log_info'[k])
                       <= 1 + (IF k \in DOMAIN log_info THEN Len(log_info[k]) ELSE 0)
       /\ \A i \in 1..Len(tasks) :
             (/\ tasks[i].pc = "logging" /\ Len(tasks') = Len(tasks)
              /\ tasks'[i].pc = "done"
              /\ NoClassClientId(tasks[i].cid) \in DOMAIN log_info)
             => LET k == NoClassClientId(tasks[i].cid) IN
                  /\ Len(log_info'[k]) = Len(log_info[k]) + 1
                  /\ log_info'[k][Len(log_info'[k])].tool_result = tasks[i].res.val
      ]_vars

C26_Witness ==
    /\ \E j, k \in DOMAIN log_info : j # k /\ Len(log_info[k]) = 2
    /\ log_file # <<>>
    /\ \E t \in Threads :
          /\ th[t].pc = "idle" /\ obs[t].op = OpDumpLog /\ obs[t].mark = "dumped"
    /\ \E t \in Threads :
          /\ th[t].pc = "idle" /\ PlainCall(obs[t].op) /\ out[t] = Ret(PlainText)

\* a step of dump_log made by thread t
DumpStep(t) ==
    /\ th[t].pc \in {"dl_open", "dl_next"}
    /\ th'[t].pc # th[t].pc \/ th'[t].todo # th[t].todo

\* the records that the last dump_log of thread t wrote, as positions of the file
Wrote(t) == (Len(log_file) - obs[t].wrote + 1)..Len(log_file)

\* the records for identifier k among the positions P of the file
RecordsOf(k, P) == {i \in P : log_file[i].id = k}

\* C27: dump_log returns None whether it wrote or failed; with no other thread
\* calling, a dump_log that did not fail has written one record for each
\* identifier of the log, holding the identifier's entries, and one that
\* failed has written at most one record for any identifier; no step of
\* dump_log changes the log, the registry or the coroutines; and the file only
\* grows, by one record in a step of dump_log, so that a second dump_log
\* leaves the records of the first in the file.
C27_DumpOneRecordPerId ==
    /\ [](\A t \in Threads :
            (th[t].pc = "idle" /\ obs[t].op = OpDumpLog)
            => /\ out[t] = Ret(None)
               /\ obs[t].mark \in {"dumped", "failed"}
               /\ Alone(t)
                  => /\ obs[t].wrote <= Len(log_file)
                     /\ \A i \in Wrote(t) : log_file[i].id \in DOMAIN log_info
                     /\ \A k \in DOMAIN log_info :
                           /\ Cardinality(RecordsOf(k, Wrote(t))) <= 1
                           /\ obs[t].mark = "dumped"
                              => \E i \in Wrote(t) :
                                    log_file[i] = [id |-> k, logs |-> log_info[k]])
    /\ [][/\ \A t \in Threads :
               DumpStep(t) => /\ log_info' = log_info
                              /\ clients' = clients
                              /\ handles' = handles
                              /\ tasks' = tasks
          /\ log_file' # log_file
             => /\ \E t \in Threads : DumpStep(t)
                /\ Len(log_file') = Len(log_file) + 1
                /\ SubSeq(log_file', 1, Len(log_file)) = log_file]_vars

C27_Witness ==
    \E t \in Threads :
        /\ th[t].pc = "idle" /\ obs[t].op = OpDumpLog /\ Alone(t)
        /\ obs[t].mark = "dumped" /\ obs[t].wrote = 2
        /\ Len(log_file) = 4
        /\ \A k \in DOMAIN log_info :
              /\ log_info[k] # <<>>
              /\ Cardinality(RecordsOf(k, 1..Len(log_file))) = 2
              /\ \A i \in RecordsOf(k, 1..Len(log_file)) : log_file[i].logs = log_info[k]

\* C28: when a teardown (close_all_clients, or the shutdown that calls it)
\* has returned, and every client has been released, so that the only tool
\* calls around are those that had their client when the teardown closed it,
\* the log has no entry.
C28_LogEmptyAfterTeardown ==
    \A t \in Threads :
        (/\ th[t].pc = "idle" /\ obs[t].op \in {OpCloseAll, OpShutdown}
         /\ out[t] = Ret(None)
         /\ \A h \in HandleIds : handles[h].rel \in {"closed", "failed"})
        => \A k \in DOMAIN log_info : log_info[k] = <<>>

\* the step is one of an init_config_async coroutine
InitConfigStep ==
    \E i \in 1..Len(tasks) :
        tasks[i].kind = "init" /\ Len(tasks') = Len(tasks) /\ tasks'[i] # tasks[i]

\* C29: the catalog changes only in a step of an init_config_async coroutine:
\* no step of get_client, call_tool, load_scenario, close_client,
\* close_all_clients, dump_log or shutdown changes it, and when no initConfig
\* is under way no step at all changes it.
C29_CatalogReadOnly ==
    [][/\ class_to_path_mapping' # class_to_path_mapping => InitConfigStep
       /\ (\A i \in 1..Len(tasks) : tasks[i].kind # "init")
          => class_to_path_mapping' = class_to_path_mapping]_vars

C29_Witness ==
    /\ th[Caller].pc = "idle" /\ obs[Caller].op = OpShutdown
    /\ out[Caller] = Ret(None)
    /\ \E h \in HandleIds : handles[h].rel = "closed"
    /\ class_to_path_mapping = [g \in Groups \cup {ToolClass(UnknownId)} |-> PathOf(g)]

\* thread t is back from execute_tool(tool, ...)
Executed(t, tool) ==
    /\ th[t].pc = "idle"
    /\ obs[t].op.name = "execute_tool" /\ obs[t].op.tool = tool

\* the entry that the last logged call on session c left in the log
LastLogged(c) == log_info[NoClassClientId(c)][Len(log_info[NoClassClientId(c)])]

\* C30: execute_tool always returns a record and never raises. Its record is
\* the failure record when the tool's prefix has no session (nothing is then
\* submitted), when call_tool caught an exception and returned None, and when
\* the load that call_tool hands over raised; otherwise it is a success
\* record whose raw_result is the text of the server (the text the coroutine
\* logged) and whose result is the parsed value when the text is JSON and the
\* text itself when it is not.
C30_ExecuteToolRecord ==
    \A t \in Threads, tool \in {o.tool : o \in MenuExecute} :
        Executed(t, tool) =>
          LET r == out[t].val
              known == tool[1] \in DOMAIN client_ids
              load == IsLoadName(tool)
              raised == load /\ obs[t].issued = 1 /\ obs[t].mark = "unset"
          IN /\ out[t].kind = "ret" /\ r.t = "dict"
             /\ ~known => r = Failure("Client not initialized") /\ obs[t].issued = 0
             /\ obs[t].caught # "none" => r = Failure("Tool call returned no result")
             /\ raised => ~r.success /\ r.error \in RemoteErrors \cup {"ConnectError"}
             /\ (known /\ obs[t].caught = "none" /\ ~raised) => r.success
             /\ r.success
                => /\ r.raw_result.t = "str"
                   /\ tool = PlainTool => r = Success(PlainText, PlainText)
                   /\ load => /\ r.raw_result \in {LoadedText, AlreadyText}
                              /\ r.result = r.raw_result
                   /\ tool = GroupSaveTool
                      => \/ r.raw_result = Str(Garbage) /\ r.result = r.raw_result
                         \/ /\ r.result \in PyValues \ {None}
                            /\ r.raw_result = json_dumps(r.result)
                   /\ (Alone(t) /\ obs[t].issued = 1)
                      => r.raw_result = LastLogged(client_ids[tool[1]]).tool_result

C30_Witness ==
    \E t, u \in Threads :
        /\ Executed(t, GroupSaveTool)
        /\ out[t] = Ret(Success(Dict("S1"), Str(Dict("S1"))))
        /\ Executed(u, GroupLoadTool)
        /\ out[u] = Ret(Success(LoadedText, LoadedText))

\* C31: a session is ready only if a load succeeded on the client that is
\* registered under its id.
C31_ReadyHandleWasLoaded ==
    \A c \in DOMAIN clients :
        Ready(clients, c) => handles[clients[c].client].loads >= 1

\* C32: close_client coroutines of the same session that overlap on the event
\* loop all end without raising.
C32_OverlappingClosesEndNormally ==
    \A i \in 1..Len(tasks) :
        (tasks[i].kind = "close" /\ tasks[i].pc = "done")
        => tasks[i].res = Ok(None)

\* the calls that hand a coroutine to the event loop and wait for its future
Submitting == {"call_tool", "load_scenario", "initConfig"}

\* thread t made its current (or last) call after run_forever() had returned
Late(t) == obs[t].late /\ obs[t].op.name \in Submitting

\* the coroutine thread t submitted has not been started
WaitsOnQueued(t) ==
    /\ th[t].pc \in {"ct_wait", "ls_wait", "ic_wait"}
    /\ \E i \in 1..Len(tasks) : tasks[i].owner = t /\ tasks[i].pc = "queued"
    /\ \A i \in 1..Len(tasks) :
          (tasks[i].owner = t /\ tasks[i].kind # "stop") => tasks[i].pc = "queued"

\* C33 (as stated): a call_tool, a load_scenario on a session that is not
\* ready, or an initConfig that begins after the event loop has stopped never
\* returns.
C33_LateCallNeverReturns ==
    \A t \in Threads :
        (Late(t) /\ obs[t].seen # "ready")
        => ~(th[t].pc = "idle" /\ out[t].kind = "ret")

\* C33 (amended): such a call never returns once it has submitted its
\* coroutine: the coroutine stays queued and the caller stays in
\* future.result(). It ends only if it submits nothing: a load without a
\* scenario (or on a ready session) returns the skip text, and a session of
\* an unconfigured group makes get_client raise.
C33_LateSubmitNeverReturns ==
    \A t \in Threads :
        Late(t) =>
            /\ obs[t].issued > 0 => WaitsOnQueued(t)
            /\ (th[t].pc = "idle" /\ out[t].kind = "ret")
               => /\ out[t] = Ret(AlreadyText)
                  /\ obs[t].op.name = "load_scenario"
                  /\ obs[t].seen = "ready" \/ ~Truthy(obs[t].op.scenario)
            /\ (th[t].pc = "idle" /\ out[t].kind = "raise")
               => /\ out[t] = Raise("KeyError")
                  /\ ToolClass(obs[t].op.cid) \notin DOMAIN class_to_path_mapping

C33_Witness ==
    \E t \in Threads :
        /\ Late(t) /\ WaitsOnQueued(t)
        /\ obs[t].op = OpLoadScenario(CHOOSE c \in ClientIds : TRUE, Dict("S1"), FALSE)
        /\ obs[t].seen = "notready"
        /\ \E u \in Threads : obs[u].op = OpShutdown /\ obs[u].mark = "joined"

\* thread t has returned from a load_scenario without a scenario (None or {})
\* that found the session not ready
SkippedLoad(t) ==
    /\ th[t].pc = "idle"
    /\ obs[t].op.name = "load_scenario"
    /\ ~Truthy(obs[t].op.scenario)
    /\ obs[t].seen = "notready"

\* C34: a load_scenario with an empty or missing scenario on a session that
\* is not ready submits no coroutine and returns the text that a load on a
\* ready session returns; when no other thread is calling, nothing is in
\* flight on the loop and the session is registered and not ready afterwards.
C34_EmptyScenarioSkips ==
    \A t \in Threads :
        /\ SkippedLoad(t)
           => /\ out[t] = Ret(AlreadyText)
              /\ obs[t].issued = 0
              /\ Alone(t) => /\ tasks = <<>>
                             /\ clients[obs[t].op.cid] # NoEntry
                             /\ ~Ready(clients, obs[t].op.cid)
        /\ (th[t].pc = "idle" /\ LoadCall(obs[t].op) /\ obs[t].seen = "ready")
           => out[t] = Ret(AlreadyText) /\ obs[t].issued = 0

C34_Witness ==
    \E t \in Threads :
        /\ SkippedLoad(t) /\ Alone(t)
        /\ obs[t].op.scenario = None
        /\ out[t] = Ret(AlreadyText)
        /\ clients[obs[t].op.cid] # NoEntry
        /\ ~Ready(clients, obs[t].op.cid)
        /\ handles[clients[obs[t].op.cid].client].loads = 0

\* C35: the step in which a coroutine whose remote call succeeded ends appends
\* one record to the list of its session's identifier.
C35_OneRecordPerSuccessfulCall ==
    [][\A i \in 1..Len(tasks) :
          (/\ tasks[i].kind = "call" /\ tasks[i].pc = "logging"
           /\ Len(tasks') = Len(tasks) /\ tasks'[i].pc = "done")
          => LET k == NoClassClientId(tasks[i].cid)
                 before == IF k \in DOMAIN log_info THEN Len(log_info[k]) ELSE 0
             IN /\ k \in DOMAIN log_info'
                /\ Len(log_info'[k]) = before + 1
                /\ tasks'[i].res = tasks[i].res]_vars

\* C36: no step of a call_tool whose tool name does not contain
\* "load_scenario" changes the ready flag of a session.
C36_PlainCallKeepsReadyFlags ==
    [][\A t \in Threads :
          (PlainCall(th[t].op) /\ th'[t] # th[t])
          => \A c \in DOMAIN clients : Ready(clients', c) <=> Ready(clients, c)]_vars

\* a step of __init__ made by thread t that assigns the attribute name
InitAssigns(t, name) ==
    /\ th[t].pc = name /\ th'[t].pc # th[t].pc

\* C37: there is one manager object, with one event loop and one worker
\* thread, and __init__ assigns self.clients, self.class_to_path_mapping and
\* self.log_info only on an object that does not have them yet.
C37_OneManagerOneLoop ==
    /\ [](/\ Len(managers) <= 1
          /\ \A m \in 1..Len(managers) :
                managers[m].loops <= 1 /\ managers[m].threads <= 1)
    /\ [][\A t \in Threads :
            /\ InitAssigns(t, "init_clients")
               => "clients" \notin managers[th[t].self].attrs
            /\ InitAssigns(t, "init_mapping")
               => "class_to_path_mapping" \notin managers[th[t].self].attrs
            /\ InitAssigns(t, "init_log")
               => "log_info" \notin managers[th[t].self].attrs]_vars

\* thread t has returned from simulate_multi_turn_execution
Simulated(t) ==
    /\ th[t].pc = "idle"
    /\ obs[t].op.name = "simulate_multi_turn_execution"
    /\ out[t].kind = "ret"

\* the sessions whose ids the last _load_initial_scenarios of t's converter made
MadeBy(t) == {c \in DOMAIN clients : c[2] = Uuids[converter[t].runs]}

\* C38: when simulate_multi_turn_execution has returned, the registry has no
\* session with an id that this run made, and the converter's client_ids is
\* empty.
C38_RunLeavesNoSession ==
    \A t \in Threads :
        Simulated(t)
        => /\ converter[t].client_ids = <<>>
           /\ \A c \in MadeBy(t) : clients[c] = NoEntry

\* thread t has come back from a call of the function name
Scored(t, name) ==
    /\ th[t].pc = "idle"
    /\ obs[t].op.name = name
    /\ out[t] # NoOutcome

\* the sequence g is contained in the sequence s, in order
IsSubsequence(g, s) ==
    \E f \in [1..Len(g) -> 1..Len(s)] :
        /\ \A i \in 1..Len(g) : g[i] = s[f[i]]
        /\ \A i, j \in 1..Len(g) : i < j => f[i] < f[j]

\* C39: _compute_trace_score returns 1.0 when the solution has an extracted
\* tool call and the normalized ground truth calls are, in order, among the
\* solution's normalized calls, and returns 0.0 in every other case.
C39_TraceScoreIsContainment ==
    \A t \in Threads :
        Scored(t, "_compute_trace_score")
        => /\ out[t].kind = "ret"
           /\ out[t].val \in {Zero, One}
           /\ out[t].val = One
              <=> /\ extract_tool_calls(obs[t].op.args) # <<>>
                  /\ IsSubsequence(parse_ground_truth(obs[t].op.scenario),
                                   extract_tool_calls(obs[t].op.args))

\* the answer score as C40 states it: 1.0 on exact match, for a dict ground
\* truth (the solution read as JSON when it is a str) and for a str one
ExactMatch(solution, ground_truth) ==
    IF ground_truth.t = "dict"
    THEN compute_answer_score(solution, ground_truth)
    ELSE IF solution = ground_truth THEN One ELSE Zero

\* a step of compute_score raises: the trace score, or the lookup of the final
\* configurations in extra_info
StepRaises(o) ==
    \/ compute_trace_score(o.args, o.scenario).kind = "raise"
    \/ o.extra = None
    \/ "sol_final_config" \notin DOMAIN o.extra

\* C40: compute_score returns 0.5 times the trace score plus 0.5 times the
\* answer score, the answer score being 1.0 on exact match and 0.0 otherwise
\* for str and dict ground truths, or 0.0 when a step raises.
C40_ScoreIsWeightedSum ==
    \A t \in Threads :
        Scored(t, "compute_score")
        => out[t] = Ret(IF StepRaises(obs[t].op) THEN Zero
                        ELSE Weighted(compute_trace_score(obs[t].op.args,
                                                          obs[t].op.scenario).val,
                                      ExactMatch(obs[t].op.extra.sol_final_config,
                                                 obs[t].op.extra.gts_final_config)))

====
